---- MODULE Spec2Model ----
(***************************************************************************)
(* Model of the spatial-annotation extraction engine of perceptron-rs      *)
(* (src/src/pointing.rs).  A text is a sequence of one-character strings;  *)
(* the regular expressions of the source are modelled by what they match   *)
(* on such a sequence, character by character.                             *)
(***************************************************************************)
EXTENDS Integers, Sequences, FiniteSets, TLC

(***************************************************************************)
(* Characters and strings                                                  *)
(***************************************************************************)

\* Option<T>: None is the empty sequence, Some(v) the one-element sequence.
None == <<>>

Some(v) == <<v>>

\* Simple case folding of the letters that occur in tag names, as the i flag does.
FoldTable ==
  [c \in {"A", "B", "C", "E", "G", "I", "L", "N", "O", "P", "T", "X", "Y"} |->
     CASE c = "A" -> "a" [] c = "B" -> "b" [] c = "C" -> "c" [] c = "E" -> "e"
       [] c = "G" -> "g" [] c = "I" -> "i" [] c = "L" -> "l" [] c = "N" -> "n"
       [] c = "O" -> "o" [] c = "P" -> "p" [] c = "T" -> "t" [] c = "X" -> "x"
       [] c = "Y" -> "y"]

Fold(c) == IF c \in DOMAIN FoldTable THEN FoldTable[c] ELSE c

\* The characters \s matches among those the model writes.
IsSpace(c) == c \in {" ", "\n", "\t"}

\* The characters \d matches among those the model writes.
DigitValue ==
  [c \in {"0", "1", "2", "3", "4", "5", "6", "7", "8", "9"} |->
     CASE c = "0" -> 0 [] c = "1" -> 1 [] c = "2" -> 2 [] c = "3" -> 3
       [] c = "4" -> 4 [] c = "5" -> 5 [] c = "6" -> 6 [] c = "7" -> 7
       [] c = "8" -> 8 [] c = "9" -> 9]

IsDigit(c) == c \in DOMAIN DigitValue

\* s[from..to], empty when to < from.
Slice(s, from, to) == [i \in 1..(to - from + 1) |-> s[from + i - 1]]

\* The least element of a non-empty set of integers.
Least(S) == CHOOSE i \in S : \A j \in S : i <= j

\* Does the literal lit occur in s at position i, letter case as written?
LitAt(s, i, lit) ==
  /\ i + Len(lit) - 1 <= Len(s)
  /\ \A k \in 1..Len(lit) : s[i + k - 1] = lit[k]

\* LitAtFold without the case-insensitive flag.
LitAtFold_Exact(s, i, lit) == LitAt(s, i, lit)

\* Does the literal lit occur in s at position i ignoring letter case?
LitAtFold(s, i, lit) ==
  /\ i + Len(lit) - 1 <= Len(s)
  /\ \A k \in 1..Len(lit) : Fold(s[i + k - 1]) = lit[k]

(***************************************************************************)
(* The tag scanner: the pattern built by tag_regex, matched ignoring case  *)
(***************************************************************************)

\* A compiled tag pattern is represented by its opening and closing literal.
tag_regex(tag_name) ==
  [open |-> <<"<">> \o tag_name, close |-> <<"<", "/">> \o tag_name \o <<">">>]

POINT_REGEX == tag_regex(<<"p", "o", "i", "n", "t">>)

BOX_REGEX == tag_regex(<<"p", "o", "i", "n", "t", "_", "b", "o", "x">>)

POLYGON_REGEX == tag_regex(<<"p", "o", "l", "y", "g", "o", "n">>)

COLLECTION_REGEX ==
  tag_regex(<<"c", "o", "l", "l", "e", "c", "t", "i", "o", "n">>)

\* TagMatchAt with a greedy body capture: the body ends at the last closing
\* literal of the text.
TagMatchAt_Greedy(re, s, i) ==
  IF ~LitAtFold(s, i, re.open) THEN None
  ELSE
    LET a   == i + Len(re.open)
        gts == {j \in a..Len(s) : s[j] = ">"}
    IN IF gts = {} THEN None
       ELSE
         LET g   == Least(gts)
             cls == {k \in (g + 1)..Len(s) : LitAtFold(s, k, re.close)}
         IN IF cls = {} THEN None
            ELSE
              LET k == CHOOSE c \in cls : \A o \in cls : o <= c
              IN Some([start |-> i, end |-> k + Len(re.close) - 1,
                       attrs |-> Slice(s, a, g - 1),
                       body |-> Slice(s, g + 1, k - 1),
                       bodyAt |-> g + 1])

\* The match of a tag pattern that starts at position i of s, or None.
\* The attribute capture holds no ">" and is followed by one, so it ends at
\* the first ">" after the name; the lazy body capture ends at the nearest
\* closing literal after that.
TagMatchAt(re, s, i) ==
  IF ~LitAtFold(s, i, re.open) THEN None
  ELSE
    LET a   == i + Len(re.open)
        gts == {j \in a..Len(s) : s[j] = ">"}
    IN IF gts = {} THEN None
       ELSE
         LET g   == Least(gts)
             cls == {k \in (g + 1)..Len(s) : LitAtFold(s, k, re.close)}
         IN IF cls = {} THEN None
            ELSE
              LET k == Least(cls)
              IN Some([start |-> i, end |-> k + Len(re.close) - 1,
                       attrs |-> Slice(s, a, g - 1),
                       body |-> Slice(s, g + 1, k - 1),
                       bodyAt |-> g + 1])

\* Leftmost match at or after position from, or None.
TagFind(re, s, from) ==
  LET starts == {i \in from..Len(s) : s[i] = "<" /\ TagMatchAt(re, s, i) # None}
  IN IF starts = {} THEN None ELSE TagMatchAt(re, s, Least(starts))

\* The iteration resuming one character behind the start of the match it
\* found, inside the match.
Resume_Overlapping(m) == m.start + 1

\* Where the iteration over the matches of a pattern (captures_iter,
\* replace_all) resumes after a match: behind its last character.
Resume(m) == m.end + 1

RECURSIVE TagMatchesFrom(_, _, _)
TagMatchesFrom(re, s, from) ==
  LET m == TagFind(re, s, from)
  IN IF m = None THEN <<>>
     ELSE <<m[1]>> \o TagMatchesFrom(re, s, Resume(m[1]))

\* captures_iter of a pattern anchored at the start of the text.
captures_iter_Anchored(re, s) ==
  LET m == TagMatchAt(re, s, 1) IN IF m = None THEN <<>> ELSE <<m[1]>>

\* Regex::captures_iter: the successive non-overlapping matches, left to right.
captures_iter(re, s) == TagMatchesFrom(re, s, 1)

(***************************************************************************)
(* The mention resolver and the coordinate parser                          *)
(***************************************************************************)

\* The literal that opens the mention attribute: mention="
MENTION_REGEX == <<"m", "e", "n", "t", "i", "o", "n", "=", "\"">>

\* parse_mention if the pattern asked for a character between the quotes,
\* mention="([^"]+)": an empty mention is no mention.
parse_mention_NonEmpty(attr_str) ==
  LET n      == Len(MENTION_REGEX)
      Quote(i) == {q \in (i + n)..Len(attr_str) : attr_str[q] = "\""}
      starts == {i \in 1..Len(attr_str) :
                   /\ LitAt(attr_str, i, MENTION_REGEX) /\ Quote(i) # {}
                   /\ Least(Quote(i)) > i + n}
  IN IF starts = {} THEN None
     ELSE LET i == Least(starts)
          IN Some(Slice(attr_str, i + n, Least(Quote(i)) - 1))

\* MENTION_REGEX.captures(attr_str): the leftmost occurrence of the opening
\* literal that is followed, after characters other than the double quote, by
\* a double quote; the capture is what lies between.  Case as written.
parse_mention(attr_str) ==
  LET n      == Len(MENTION_REGEX)
      Quote(i) == {q \in (i + n)..Len(attr_str) : attr_str[q] = "\""}
      starts == {i \in 1..Len(attr_str) :
                   LitAt(attr_str, i, MENTION_REGEX) /\ Quote(i) # {}}
  IN IF starts = {} THEN None
     ELSE LET i == Least(starts)
          IN Some(Slice(attr_str, i + n, Least(Quote(i)) - 1))

\* u32::MAX is 4294967295: its quotient and remainder by ten.
U32MaxDiv10 == 429496729

U32MaxMod10 == 5

\* str::parse::<u32> on a run of decimal digits: digit by digit with checked
\* multiplication and addition; None on overflow.
RECURSIVE ParseDigits(_, _, _)
ParseDigits(s, i, acc) ==
  IF i > Len(s) THEN Some(acc)
  ELSE LET d == DigitValue[s[i]]
       IN IF acc > U32MaxDiv10 \/ (acc = U32MaxDiv10 /\ d > U32MaxMod10)
          THEN None
          ELSE ParseDigits(s, i + 1, acc * 10 + d)

\* parse::<u32> that wraps modulo 2^32 instead of failing: the value is kept
\* as two halves of 16 bits.
RECURSIVE WrapDigits(_, _, _, _)
WrapDigits(s, i, hi, lo) ==
  IF i > Len(s) THEN Some(hi * 65536 + lo)
  ELSE LET l == lo * 10 + DigitValue[s[i]]
           h == hi * 10 + (l \div 65536)
       IN WrapDigits(s, i + 1, h % 65536, l % 65536)

parse_u32_Wrapping(s) == IF Len(s) = 0 THEN None ELSE WrapDigits(s, 1, 0, 0)

parse_u32(s) == IF Len(s) = 0 THEN None ELSE ParseDigits(s, 1, 0)

\* First position at or after i that holds no white space (Len(s) + 1 if none).
SkipSpace(s, i) ==
  Least({j \in i..(Len(s) + 1) : j = Len(s) + 1 \/ ~IsSpace(s[j])})

\* First position at or after i that holds no digit (Len(s) + 1 if none).
SkipDigits(s, i) ==
  Least({j \in i..(Len(s) + 1) : j = Len(s) + 1 \/ ~IsDigit(s[j])})

\* CoordMatchAt without the optional white space: the pair as written tight.
CoordMatchAt_Tight(s, i) ==
  IF s[i] # "(" THEN None
  ELSE
    LET x2 == SkipDigits(s, i + 1)
        y2 == SkipDigits(s, x2 + 1)
    IN IF /\ x2 > i + 1
          /\ x2 <= Len(s) /\ s[x2] = ","
          /\ y2 > x2 + 1
          /\ y2 <= Len(s) /\ s[y2] = ")"
       THEN Some([end |-> y2, xs |-> Slice(s, i + 1, x2 - 1),
                  ys |-> Slice(s, x2 + 1, y2 - 1)])
       ELSE None

\* COORD_REGEX at position i: "(" ws digits ws "," ws digits ws ")".  The
\* classes are disjoint, so the greedy match is the only one.
CoordMatchAt(s, i) ==
  IF s[i] # "(" THEN None
  ELSE
    LET x1 == SkipSpace(s, i + 1)
        x2 == SkipDigits(s, x1)
        c  == SkipSpace(s, x2)
        y1 == SkipSpace(s, c + 1)
        y2 == SkipDigits(s, y1)
        r  == SkipSpace(s, y2)
    IN IF /\ x2 > x1
          /\ c <= Len(s) /\ s[c] = ","
          /\ y2 > y1
          /\ r <= Len(s) /\ s[r] = ")"
       THEN Some([end |-> r, xs |-> Slice(s, x1, x2 - 1),
                  ys |-> Slice(s, y1, y2 - 1)])
       ELSE None

\* COORD_REGEX.captures_iter(body).filter_map(...): the matches left to
\* right, a match kept only if both captures parse as u32.
RECURSIVE CoordsFrom(_, _)
CoordsFrom(s, from) ==
  LET starts == {i \in from..Len(s) : CoordMatchAt(s, i) # None}
  IN IF starts = {} THEN <<>>
     ELSE LET m == CoordMatchAt(s, Least(starts))[1]
              x == parse_u32(m.xs)
              y == parse_u32(m.ys)
          IN (IF x # None /\ y # None THEN <<(<<x[1], y[1]>>)>> ELSE <<>>)
               \o CoordsFrom(s, m.end + 1)

parse_coords(body) == CoordsFrom(body, 1)

(***************************************************************************)
(* The kind-specific constructors                                          *)
(***************************************************************************)

\* parse_point taking the last coordinate instead of the first.
parse_point_Last(coords, mention) ==
  IF Len(coords) >= 1
  THEN Some([x |-> coords[Len(coords)][1], y |-> coords[Len(coords)][2],
             mention |-> mention])
  ELSE None

parse_point(coords, mention) ==
  IF Len(coords) >= 1
  THEN Some([x |-> coords[1][1], y |-> coords[1][2], mention |-> mention])
  ELSE None

\* parse_box ordering the corners so that x1 <= x2 and y1 <= y2.
parse_box_Normalized(coords, mention) ==
  IF Len(coords) >= 2
  THEN LET a == coords[1]
           b == coords[2]
       IN Some([x1 |-> IF a[1] <= b[1] THEN a[1] ELSE b[1],
                y1 |-> IF a[2] <= b[2] THEN a[2] ELSE b[2],
                x2 |-> IF a[1] <= b[1] THEN b[1] ELSE a[1],
                y2 |-> IF a[2] <= b[2] THEN b[2] ELSE a[2],
                mention |-> mention])
  ELSE None

parse_box(coords, mention) ==
  IF Len(coords) >= 2
  THEN Some([x1 |-> coords[1][1], y1 |-> coords[1][2],
             x2 |-> coords[2][1], y2 |-> coords[2][2], mention |-> mention])
  ELSE None

\* parse_polygon accepting two coordinates.
parse_polygon_MinTwo(coords, mention) ==
  IF Len(coords) >= 2
  THEN Some([hull |-> coords, mention |-> mention])
  ELSE None

\* parse_polygon dropping a last vertex that repeats the first.
parse_polygon_OpenRing(coords, mention) ==
  IF Len(coords) >= 3
  THEN Some([hull |-> IF coords[Len(coords)] = coords[1]
                      THEN SubSeq(coords, 1, Len(coords) - 1) ELSE coords,
             mention |-> mention])
  ELSE None

parse_polygon(coords, mention) ==
  IF Len(coords) >= 3
  THEN Some([hull |-> coords, mention |-> mention])
  ELSE None

\* A call through the function pointer parse_fn, which is one of the three
\* constructors, named here by a string.
Call(parse_fn, coords, mention) ==
  CASE parse_fn = "parse_point" -> parse_point(coords, mention)
    [] parse_fn = "parse_box" -> parse_box(coords, mention)
    [] parse_fn = "parse_polygon" -> parse_polygon(coords, mention)

(***************************************************************************)
(* extract_items and extract                                               *)
(***************************************************************************)

OutputFormat == {"Text", "Point", "Box", "Polygon"}

item_regex(format) ==
  CASE format = "Point" -> POINT_REGEX
    [] format = "Box" -> BOX_REGEX
    [] format = "Polygon" -> POLYGON_REGEX

\* The integers a..b as a sequence.
Range(a, b) == [i \in 1..(b - a + 1) |-> a + i - 1]

\* replace_all that removes nothing: the whole text remains.
KeptPositions_Everything(colls, from, len) == Range(from, len)

\* The positions of text that replace_all keeps: those outside every match.
RECURSIVE KeptPositions(_, _, _)
KeptPositions(colls, from, len) ==
  IF colls = <<>> THEN Range(from, len)
  ELSE Range(from, colls[1].start - 1)
         \o KeptPositions(Tail(colls), colls[1].end + 1, len)

\* The text replace_all returns: the characters at the positions kept, as
\* one sequence.
Remaining(s, kept) == [i \in 1..Len(kept) |-> s[kept[i]]] \o <<>>

\* The closure with the parent mention taking precedence over the child's.
RECURSIVE CollectionPushes_ParentWins(_, _, _, _)
CollectionPushes_ParentWins(cap, inner, i, parse_fn) ==
  IF i > Len(inner) THEN <<>>
  ELSE
    LET parent_mention == parse_mention(cap.attrs)
        child_mention  == parse_mention(inner[i].attrs)
        mention == IF parent_mention # None THEN parent_mention
                   ELSE child_mention
        item == Call(parse_fn, parse_coords(inner[i].body), mention)
    IN (IF item # None
        THEN <<[item |-> item[1], pass |-> "collection",
                from |-> cap.bodyAt + inner[i].start - 1,
                to |-> cap.bodyAt + inner[i].end - 1]>>
        ELSE <<>>)
         \o CollectionPushes_ParentWins(cap, inner, i + 1, parse_fn)

\* The closure given to replace_all, run on one collection match: one push
\* per inner match the constructor accepts.  Each push records, next to the
\* item, where in the text its tag starts and ends and which pass made it.
RECURSIVE CollectionPushes(_, _, _, _)
CollectionPushes(cap, inner, i, parse_fn) ==
  IF i > Len(inner) THEN <<>>
  ELSE
    LET parent_mention == parse_mention(cap.attrs)
        child_mention  == parse_mention(inner[i].attrs)
        mention == IF child_mention # None THEN child_mention
                   ELSE parent_mention
        item == Call(parse_fn, parse_coords(inner[i].body), mention)
    IN (IF item # None
        THEN <<[item |-> item[1], pass |-> "collection",
                from |-> cap.bodyAt + inner[i].start - 1,
                to |-> cap.bodyAt + inner[i].end - 1]>>
        ELSE <<>>)
         \o CollectionPushes(cap, inner, i + 1, parse_fn)

RECURSIVE AllCollectionPushes(_, _, _, _)
AllCollectionPushes(colls, c, target_regex, parse_fn) ==
  IF c > Len(colls) THEN <<>>
  ELSE CollectionPushes(colls[c], captures_iter(target_regex, colls[c].body),
                        1, parse_fn)
         \o AllCollectionPushes(colls, c + 1, target_regex, parse_fn)

\* The loop over the standalone matches of the remaining text; kept maps a
\* position of the remaining text to its position in the text.
RECURSIVE StandalonePushes(_, _, _, _)
StandalonePushes(caps, i, kept, parse_fn) ==
  IF i > Len(caps) THEN <<>>
  ELSE
    LET item == Call(parse_fn, parse_coords(caps[i].body),
                     parse_mention(caps[i].attrs))
    IN (IF item # None
        THEN <<[item |-> item[1], pass |-> "standalone",
                from |-> kept[caps[i].start], to |-> kept[caps[i].end]]>>
        ELSE <<>>)
         \o StandalonePushes(caps, i + 1, kept, parse_fn)

\* The standalone loop handing on a mention to the matches that have none.
RECURSIVE StandalonePushes_Inheriting(_, _, _, _, _)
StandalonePushes_Inheriting(caps, i, kept, parse_fn, inherited) ==
  IF i > Len(caps) THEN <<>>
  ELSE
    LET own  == parse_mention(caps[i].attrs)
        item == Call(parse_fn, parse_coords(caps[i].body),
                     IF own # None THEN own ELSE inherited)
    IN (IF item # None
        THEN <<[item |-> item[1], pass |-> "standalone",
                from |-> kept[caps[i].start], to |-> kept[caps[i].end]]>>
        ELSE <<>>)
         \o StandalonePushes_Inheriting(caps, i + 1, kept, parse_fn, inherited)

\* extract_items with the standalone matches inheriting the mention of the
\* last collection of the text.
Pushes_StandaloneInherits(text, target_regex, parse_fn) ==
  LET colls     == captures_iter(COLLECTION_REGEX, text)
      kept      == KeptPositions(colls, 1, Len(text))
      remaining == Remaining(text, kept)
      inherited == IF colls = <<>> THEN None
                   ELSE parse_mention(colls[Len(colls)].attrs)
  IN AllCollectionPushes(colls, 1, target_regex, parse_fn)
       \o StandalonePushes_Inheriting(captures_iter(target_regex, remaining),
                                      1, kept, parse_fn, inherited)

\* extract_items with the standalone loop run before the collections.
Pushes_StandaloneFirst(text, target_regex, parse_fn) ==
  LET colls     == captures_iter(COLLECTION_REGEX, text)
      kept      == KeptPositions(colls, 1, Len(text))
      remaining == Remaining(text, kept)
  IN StandalonePushes(captures_iter(target_regex, remaining), 1, kept,
                      parse_fn)
       \o AllCollectionPushes(colls, 1, target_regex, parse_fn)

\* The pushes onto results, in the order extract_items makes them.
Pushes(text, target_regex, parse_fn) ==
  LET colls     == captures_iter(COLLECTION_REGEX, text)
      kept      == KeptPositions(colls, 1, Len(text))
      remaining == Remaining(text, kept)
  IN AllCollectionPushes(colls, 1, target_regex, parse_fn)
       \o StandalonePushes(captures_iter(target_regex, remaining), 1, kept,
                           parse_fn)

ItemsOf(pushes) == [i \in 1..Len(pushes) |-> pushes[i].item]

extract_items(text, target_regex, parse_fn) ==
  ItemsOf(Pushes(text, target_regex, parse_fn))

\* The pushes behind extract(text, format).
ExtractPushes(text, format) ==
  CASE format = "Point" -> Pushes(text, item_regex(format), "parse_point")
    [] format = "Box" -> Pushes(text, item_regex(format), "parse_box")
    [] format = "Polygon" -> Pushes(text, item_regex(format), "parse_polygon")
    [] format = "Text" -> <<>>

\* Wrap without the is_empty test.
Wrap_AlwaysSome(variant, items) == Some([variant |-> variant, list |-> items])

\* Option<Pointing>: a Pointing is its variant and its list.
Wrap(variant, items) ==
  IF items = <<>> THEN None ELSE Some([variant |-> variant, list |-> items])

\* extract without the short circuit for Text: Text is scanned like Point.
extract_TextScanned(text, format) ==
  CASE format \in {"Point", "Text"} ->
         Wrap("Points", extract_items(text, POINT_REGEX, "parse_point"))
    [] format = "Box" ->
         Wrap("Boxes", extract_items(text, item_regex(format), "parse_box"))
    [] format = "Polygon" ->
         Wrap("Polygons",
              extract_items(text, item_regex(format), "parse_polygon"))

\* extract with the Box arm wrapping its list as Points.
extract_BoxesAsPoints(text, format) ==
  CASE format = "Point" ->
         Wrap("Points", extract_items(text, item_regex(format), "parse_point"))
    [] format = "Box" ->
         Wrap("Points", extract_items(text, item_regex(format), "parse_box"))
    [] format = "Polygon" ->
         Wrap("Polygons",
              extract_items(text, item_regex(format), "parse_polygon"))
    [] format = "Text" -> None

extract(text, format) ==
  CASE format = "Point" ->
         Wrap("Points", extract_items(text, item_regex(format), "parse_point"))
    [] format = "Box" ->
         Wrap("Boxes", extract_items(text, item_regex(format), "parse_box"))
    [] format = "Polygon" ->
         Wrap("Polygons",
              extract_items(text, item_regex(format), "parse_polygon"))
    [] format = "Text" -> None

(***************************************************************************)
(* Panics: the expressions of the engine that can panic are the            *)
(* unreachable!() arm of item_regex and the indexing of a Vec.             *)
(***************************************************************************)

\* The arm of item_regex that is unreachable!().
item_regex_Unreachable(format) == format = "Text"

\* extract calling item_regex on every path, Text included.
extract_Calls_Always(format) == {format}

\* The formats extract hands to item_regex: its Text arm returns None
\* without a call.
extract_Calls(format) == IF format = "Text" THEN {} ELSE {format}

\* parse_box with its test lowered to one coordinate.
parse_box_Indexed_MinOne(coords) == IF Len(coords) >= 1 THEN {0, 1} ELSE {}

\* The indices parse_box reads coords at, coords[0] and coords[1], both
\* behind its length test.
parse_box_Indexed(coords) == IF Len(coords) >= 2 THEN {0, 1} ELSE {}

\* The constructors that read coords by index: parse_point takes first()
\* and parse_polygon copies the whole Vec, neither indexes.
Indexing == {"parse_box"}

\* The indices a constructor reads coords at.
Indexed(parse_fn, coords) ==
  IF parse_fn = "parse_box" THEN parse_box_Indexed(coords) ELSE {}

\* The coordinate lists extract_items hands to parse_fn: one per match of
\* target_regex inside a collection body and one per match in the remaining
\* text.
Attempts(text, target_regex) ==
  LET colls     == captures_iter(COLLECTION_REGEX, text)
      kept      == KeptPositions(colls, 1, Len(text))
      remaining == Remaining(text, kept)
      Bodies(caps) == {parse_coords(caps[i].body) : i \in DOMAIN caps}
  IN UNION {Bodies(captures_iter(target_regex, colls[c].body)) :
              c \in DOMAIN colls}
       \cup Bodies(captures_iter(target_regex, remaining))

ParseFn(format) ==
  CASE format = "Point" -> "parse_point" [] format = "Box" -> "parse_box"
    [] format = "Polygon" -> "parse_polygon"

\* Does extract(text, format) panic?  It does when it reaches the
\* unreachable!() arm or reads a Vec at an index that is not below its
\* length.
extract_Panics(text, format) ==
  \/ \E f \in extract_Calls(format) : item_regex_Unreachable(f)
  \/ /\ format # "Text"
     /\ ParseFn(format) \in Indexing
     /\ \E coords \in Attempts(text, item_regex(format)) :
          \E i \in Indexed(ParseFn(format), coords) : i >= Len(coords)

(***************************************************************************)
(* The texts the engine is run on                                          *)
(***************************************************************************)

\* Most tokens a well-formed document holds.
MaxLen == 5

\* Most tokens a document of arbitrary tokens holds.
MaxAny == 3

\* Most coordinate pairs a single-tag document holds.
MaxCoords == 4

TagNames == {"point", "point_box", "polygon", "collection"}

NameChars(tag) ==
  CASE tag = "point" -> <<"p", "o", "i", "n", "t">>
    [] tag = "point_box" -> <<"p", "o", "i", "n", "t", "_", "b", "o", "x">>
    [] tag = "polygon" -> <<"p", "o", "l", "y", "g", "o", "n">>
    [] tag = "collection" ->
         <<"c", "o", "l", "l", "e", "c", "t", "i", "o", "n">>

\* The capital of a letter of a tag name.
Capital(c) ==
  IF \E u \in DOMAIN FoldTable : FoldTable[u] = c
  THEN CHOOSE u \in DOMAIN FoldTable : FoldTable[u] = c
  ELSE c

\* The ways a text writes a tag name.
Cases == {"small", "capitals", "initial"}

\* A tag name as written: in small letters, in capitals, or with a capital
\* initial.
Written(tag, case) ==
  [i \in 1..Len(NameChars(tag)) |->
     IF case = "capitals" \/ (case = "initial" /\ i = 1)
     THEN Capital(NameChars(tag)[i]) ELSE NameChars(tag)[i]]

\* Free text that holds no tag: it may hold ">" and a coordinate pair.
FreeText(which) ==
  CASE which = "words" -> <<"a", " ", "c", "a", "t", ":", " ">>
    [] which = "marks" -> <<" ", "(", "3", ",", "4", ")", " ", "x", ">", "y", " ">>

DigitChars == <<"0", "1", "2", "3", "4", "5", "6", "7", "8", "9">>

\* Decimal notation of a natural number.
RECURSIVE ToDigits(_)
ToDigits(n) ==
  IF n < 10 THEN <<DigitChars[n + 1]>>
  ELSE ToDigits(n \div 10) \o <<DigitChars[(n % 10) + 1]>>

\* The j-th coordinate pair of the k-th token of a document: the tags of a
\* document have different pairs; along a tag x falls and y rises, and the
\* fourth pair repeats the first (a closed ring).
Coord(k, j) == <<10 * k + (8 - ((j - 1) % 3)), ((j - 1) % 3) + 1>>

CoordsOf(k, n) == [j \in 1..n |-> Coord(k, j)]

RenderCoord(c) ==
  <<" ", "(">> \o ToDigits(c[1]) \o <<",">> \o ToDigits(c[2]) \o <<")">>

RECURSIVE RenderCoords(_, _)
RenderCoords(cs, j) ==
  IF j > Len(cs) THEN <<>> ELSE RenderCoord(cs[j]) \o RenderCoords(cs, j + 1)

\* The attribute substring: another attribute, then the mention if any.
RenderAttrs(tok) ==
  (IF tok.extra THEN <<" ", "t", "=", "0", ".", "5">> ELSE <<>>)
    \o (IF tok.mention = None THEN <<>>
        ELSE <<" ">> \o MENTION_REGEX \o tok.mention[1] \o <<"\"">>)

RenderOpen(tok) ==
  <<"<">> \o Written(tok.tag, tok.caseOpen) \o RenderAttrs(tok) \o <<">">>

RenderClose(tok) == <<"<", "/">> \o Written(tok.tag, tok.caseClose) \o <<">">>

\* A token is a complete item tag, the opening or closing tag of a
\* collection, or free text.
RenderToken(tok, k) ==
  CASE tok.t = "item" ->
         RenderOpen(tok) \o RenderCoords(CoordsOf(k, tok.n), 1) \o <<" ">>
           \o RenderClose(tok)
    [] tok.t = "open" -> RenderOpen(tok) \o <<"\n">>
    [] tok.t = "close" -> RenderClose(tok) \o <<"\n">>
    [] tok.t = "text" -> FreeText(tok.tag)

\* The text of a document with the tokens of skip left out; the other
\* tokens keep their coordinates.
RECURSIVE RenderFrom(_, _, _)
RenderFrom(d, k, skip) ==
  IF k > Len(d) THEN <<>>
  ELSE (IF k \in skip THEN <<>> ELSE RenderToken(d[k], k))
         \o RenderFrom(d, k + 1, skip)

RenderWithout(d, skip) == RenderFrom(d, 1, skip)

Render(d) == RenderWithout(d, {})

\* A token as written: caseOpen and caseClose say how the name is written
\* in the opening and in the closing tag.
TokenWritten(t, tag, mention, extra, n, caseOpen, caseClose) ==
  [t |-> t, tag |-> tag, mention |-> mention, extra |-> extra, n |-> n,
   caseOpen |-> caseOpen, caseClose |-> caseClose]

\* A token with its names in small letters.
Token(t, tag, mention, extra, n) ==
  TokenWritten(t, tag, mention, extra, n, "small", "small")

ItemTags == {"point", "point_box", "polygon"}

\* Every single item tag: each name, with or without a mention and another
\* attribute, with 0..MaxCoords coordinate pairs.
SingleItems ==
  {Token("item", tag, m, e, n) :
     tag \in ItemTags, m \in {None, Some(<<"a">>)}, e \in BOOLEAN,
     n \in 0..MaxCoords}

\* The tokens of longer documents.
StructTokens ==
  {Token("item", "point", None, FALSE, 1),
   Token("item", "point", Some(<<"a">>), FALSE, 2),
   Token("item", "point", None, FALSE, 0),
   Token("item", "point_box", Some(<<"b">>), FALSE, 2),
   Token("open", "collection", Some(<<"c">>), FALSE, 0),
   Token("open", "collection", None, FALSE, 0),
   Token("close", "collection", None, FALSE, 0)}

FreeTexts ==
  {Token("text", "words", None, FALSE, 0), Token("text", "marks", None, FALSE, 0)}

\* One item tag with free text before it, after it, or both.
InFreeText ==
  {<<f, tok>> : f \in FreeTexts, tok \in SingleItems}
    \cup {<<f, tok, g>> : f \in FreeTexts, tok \in SingleItems, g \in FreeTexts}

\* Documents with capitals in tag names, in the opening tag, the closing
\* tag or both: one item tag, and a collection of one item tag.
InCapitals ==
  {<<TokenWritten("item", tag, Some(<<"a">>), FALSE, 3, co, cc)>> :
     tag \in ItemTags, co \in Cases, cc \in Cases}
    \cup {<<TokenWritten("open", "collection", Some(<<"c">>), FALSE, 0,
                         co, "small"),
            TokenWritten("item", tag, None, FALSE, 3, ci, ci),
            TokenWritten("close", "collection", None, FALSE, 0,
                         "small", cc)>> :
            tag \in ItemTags, co \in Cases, ci \in Cases, cc \in Cases}

\* Item tags of one kind side by side, each with enough coordinates for
\* its kind, every other one with a mention.
Adjacent ==
  {[k \in 1..n |-> Token("item", tag,
                         IF k % 2 = 1 THEN Some(<<"a">>) ELSE None,
                         FALSE, 3)] :
     tag \in ItemTags, n \in 2..MaxAny}

SeqsUpTo(S, n) == UNION {[1..m -> S] : m \in 0..n}

\* Collections are closed and not nested: every opening tag is followed,
\* after item tags only, by a closing tag, and every closing tag is preceded,
\* before item tags only, by an opening tag.
WellFormed(d) ==
  /\ \A i \in 1..Len(d) : d[i].t = "open" =>
       \E j \in (i + 1)..Len(d) :
         d[j].t = "close" /\ \A m \in (i + 1)..(j - 1) : d[m].t = "item"
  /\ \A j \in 1..Len(d) : d[j].t = "close" =>
       \E i \in 1..(j - 1) :
         d[i].t = "open" /\ \A m \in (i + 1)..(j - 1) : d[m].t = "item"

\* The documents: every single item tag, every well-formed sequence of up to
\* MaxLen tokens, every sequence of up to MaxAny tokens, and the documents
\* with free text and with capitals.
Docs ==
  {<<tok>> : tok \in SingleItems}
    \cup {d \in SeqsUpTo(StructTokens, MaxLen) : WellFormed(d)}
    \cup SeqsUpTo(StructTokens, MaxAny)
    \cup InFreeText \cup InCapitals \cup Adjacent

(***************************************************************************)
(* The state machine: a caller holds a text and a format and calls extract *)
(***************************************************************************)

\* doc is the document the text was written from, text the input of extract,
\* result what extract returned once pc is "done"; scan is where the loops of
\* extract_items stand when extract is followed match by match.  request,
\* http, outcome and calls belong to a call of a client method: the request,
\* the reply of
\* the API, what the method returned and how often it called extract; wire is
\* the list of messages of the wire request a method built.
\* inputs, cells, threads and log belong to threads that call extract side
\* by side: the calls they may make (with the statics extract dereferences
\* for each, what extract_items finds for it with each item pattern, and
\* what extract returns for it when run alone), the LazyLock statics, each
\* thread's call, and the calls that returned.
VARIABLES doc, text, format, result, scan, pc, request, http, outcome,
          calls, wire, inputs, cells, threads, log

engineVars == <<doc, text, format, result, scan>>

clientVars == <<request, http, outcome, calls, wire>>

threadVars == <<inputs, cells, threads, log>>

vars ==
  <<doc, text, format, result, scan, pc, request, http, outcome, calls,
    wire, inputs, cells, threads, log>>

\* No call of a client method is under way.
NoClient ==
  request = None /\ http = None /\ outcome = None /\ calls = 0 /\ wire = None

\* No threads are running.
NoThreads == inputs = <<>> /\ cells = <<>> /\ threads = <<>> /\ log = <<>>

Init ==
  /\ doc \in Docs
  /\ text = Render(doc)
  /\ format \in OutputFormat
  /\ result = None
  /\ scan = None
  /\ pc = "ready"
  /\ NoClient
  /\ NoThreads

Extract ==
  /\ pc = "ready"
  /\ IF extract_Panics(text, format)
     THEN result' = None /\ pc' = "panicked"
     ELSE result' = extract(text, format) /\ pc' = "done"
  /\ UNCHANGED <<doc, text, format, scan>>
  /\ UNCHANGED clientVars
  /\ UNCHANGED threadVars

Next == Extract

Spec == Init /\ [][Next]_vars

(***************************************************************************)
(* The mention resolver on attribute substrings                            *)
(***************************************************************************)

\* Most attributes an attribute substring holds.
MaxAttrs == 3

\* The attributes: a score, mentions, and attributes of other names, one of
\* them a name that ends in "mention".
Attrs ==
  {[name |-> <<"t">>, value |-> <<"0", ".", "5">>, quoted |-> FALSE],
   [name |-> <<"m", "e", "n", "t", "i", "o", "n">>, value |-> <<"a">>,
    quoted |-> TRUE],
   [name |-> <<"m", "e", "n", "t", "i", "o", "n">>, value |-> <<>>,
    quoted |-> TRUE],
   [name |-> <<"i", "d">>, value |-> <<"7">>, quoted |-> TRUE],
   [name |-> <<"a", "l", "t", "_", "m", "e", "n", "t", "i", "o", "n">>,
    value |-> <<"q">>, quoted |-> TRUE]}

RenderAttr(a) ==
  <<" ">> \o a.name \o <<"=">>
    \o (IF a.quoted THEN <<"\"">> \o a.value \o <<"\"">> ELSE a.value)

RECURSIVE RenderAttrList(_)
RenderAttrList(as) ==
  IF as = <<>> THEN <<>> ELSE RenderAttr(Head(as)) \o RenderAttrList(Tail(as))

AttrLists == SeqsUpTo(Attrs, MaxAttrs)

\* The attribute substring of an opening tag, as the tag pattern captures
\* it, is given to parse_mention.
InitMention ==
  /\ doc \in AttrLists
  /\ text = RenderAttrList(doc)
  /\ format = "Text"
  /\ result = None
  /\ scan = None
  /\ pc = "ready"
  /\ NoClient
  /\ NoThreads

ParseMention ==
  /\ pc = "ready"
  /\ result' = parse_mention(text)
  /\ pc' = "done"
  /\ UNCHANGED <<doc, text, format, scan>>
  /\ UNCHANGED clientVars
  /\ UNCHANGED threadVars

NextMention == ParseMention

SpecMention == InitMention /\ [][NextMention]_vars

(***************************************************************************)
(* The coordinate parser on bodies                                         *)
(***************************************************************************)

\* Most pieces a body holds.
MaxPieces == 3

\* The ways a body writes a piece.  A pair as COORD_REGEX matches it: tight,
\* spaced (blanks around the digits and the comma), lines (line feeds and
\* tabs), zeros (leading zeros).  Not a pair: minus and plus (a sign),
\* decimal, noX and noY (a component missing), unclosed, words (digits and a
\* comma outside parentheses).  A pair of digits that are no u32: bigX (x is
\* 2^32), bigY (y is 99999999999).
PairForms == {"tight", "spaced", "lines", "zeros"}

NoPairForms ==
  {"minus", "plus", "decimal", "noX", "noY", "unclosed", "words"}

BigForms == {"bigX", "bigY"}

Forms == PairForms \cup NoPairForms \cup BigForms

\* The numbers the k-th piece of a body writes.
PieceX(k) == 10 * k + 7

PieceY(k) == k

RenderPiece(form, k) ==
  LET x == ToDigits(PieceX(k))
      y == ToDigits(PieceY(k))
  IN CASE form = "tight" -> <<"(">> \o x \o <<",">> \o y \o <<")">>
       [] form = "spaced" ->
            <<"(", " ">> \o x \o <<" ", ",", " ", " ">> \o y \o <<" ", ")">>
       [] form = "lines" ->
            <<"(", "\n">> \o x \o <<"\t", ",", "\n">> \o y \o <<"\t", ")">>
       [] form = "zeros" ->
            <<"(", "0", "0">> \o x \o <<",", "0">> \o y \o <<")">>
       [] form = "minus" -> <<"(", "-">> \o x \o <<",">> \o y \o <<")">>
       [] form = "plus" -> <<"(", "+">> \o x \o <<",">> \o y \o <<")">>
       [] form = "decimal" ->
            <<"(">> \o x \o <<".", "5", ",">> \o y \o <<")">>
       [] form = "noX" -> <<"(", ",">> \o y \o <<")">>
       [] form = "noY" -> <<"(">> \o x \o <<",", ")">>
       [] form = "unclosed" -> <<"(">> \o x \o <<",">> \o y
       [] form = "words" ->
            <<" ", "a", "t", " ">> \o x \o <<",", " ">> \o y \o <<" ">>
       [] form = "bigX" ->
            <<"(", "4", "2", "9", "4", "9", "6", "7", "2", "9", "6", ",">>
              \o y \o <<")">>
       [] form = "bigY" ->
            <<"(">> \o x
              \o <<",", "9", "9", "9", "9", "9", "9", "9", "9", "9", "9", "9",
                   ")">>

RECURSIVE RenderPieces(_, _)
RenderPieces(forms, k) ==
  IF k > Len(forms) THEN <<>>
  ELSE RenderPiece(forms[k], k) \o RenderPieces(forms, k + 1)

\* A body is its pieces, side by side.
Pieces == SeqsUpTo(Forms, MaxPieces)

InitCoords ==
  /\ doc \in Pieces
  /\ text = RenderPieces(doc, 1)
  /\ format = "Text"
  /\ result = None
  /\ scan = None
  /\ pc = "ready"
  /\ NoClient
  /\ NoThreads

ParseCoords ==
  /\ pc = "ready"
  /\ result' = parse_coords(text)
  /\ pc' = "done"
  /\ UNCHANGED <<doc, text, format, scan>>
  /\ UNCHANGED clientVars
  /\ UNCHANGED threadVars

NextCoords == ParseCoords

SpecCoords == InitCoords /\ [][NextCoords]_vars

(***************************************************************************)
(* extract on texts whose tags are written out piece by piece              *)
(***************************************************************************)

\* Most pieces the body of a written tag holds.
MaxBody == 4

\* The pieces of the body of a written tag.
BodyForms == {"spaced", "bigX", "bigY"}

\* An item tag whose body is the pieces of forms.
Tag(tag, mention, forms) ==
  [t |-> "pieces", tag |-> tag, mention |-> mention, extra |-> FALSE, n |-> 0,
   caseOpen |-> "small", caseClose |-> "small", forms |-> forms]

\* An item tag with as many pairs as its kind needs, written with a whole
\* collection put in behind its first `at` characters: in front of it
\* (at = 0), behind it, or in its name, its body or its closing tag.  The
\* collection holds the item tag inner, if any.
Split(tag, at, inner) ==
  [t |-> "split", tag |-> tag, mention |-> None, extra |-> FALSE,
   n |-> CASE tag = "point" -> 1 [] tag = "point_box" -> 2
           [] tag = "polygon" -> 3,
   caseOpen |-> "small", caseClose |-> "small", at |-> at, inner |-> inner]

\* The item tag of a split token, as it is without the collection.
Joined(tok) == Token("item", tok.tag, tok.mention, tok.extra, tok.n)

\* A collection written on one line.
RenderCollection(inner) ==
  RenderOpen(Token("open", "collection", Some(<<"c">>), FALSE, 0))
    \o (IF inner = None THEN <<>> ELSE RenderToken(inner[1], 2))
    \o RenderClose(Token("close", "collection", None, FALSE, 0))

RenderWritten(tok, k) ==
  CASE tok.t = "pieces" ->
         RenderOpen(tok) \o <<" ">> \o RenderPieces(tok.forms, 1) \o <<" ">>
           \o RenderClose(tok)
    [] tok.t = "split" ->
         LET whole == RenderToken(Joined(tok), k)
         IN SubSeq(whole, 1, tok.at) \o RenderCollection(tok.inner)
              \o SubSeq(whole, tok.at + 1, Len(whole))
    [] OTHER -> RenderToken(tok, k)

RECURSIVE RenderTextFrom(_, _)
RenderTextFrom(d, k) ==
  IF k > Len(d) THEN <<>>
  ELSE RenderWritten(d[k], k) \o RenderTextFrom(d, k + 1)

RenderText(d) == RenderTextFrom(d, 1)

\* One item tag with pairs that are no u32 among its pairs, standalone with
\* or without a mention, and inside a collection with a mention.
WithBigPairs ==
  {<<Tag(tag, m, forms)>> :
     tag \in ItemTags, m \in {None, Some(<<"a">>)},
     forms \in SeqsUpTo(BodyForms, MaxBody)}
    \cup {<<Token("open", "collection", Some(<<"c">>), FALSE, 0),
            Tag(tag, None, forms),
            Token("close", "collection", None, FALSE, 0)>> :
            tag \in ItemTags, forms \in SeqsUpTo(BodyForms, MaxBody)}

\* One item tag with a collection, empty or with an item tag of its own,
\* at every place of its text.
WithSplitTags ==
  UNION {{<<Split(tag, at, inner)>> :
            at \in 0..Len(RenderToken(Joined(Split(tag, 0, None)), 1)),
            inner \in {None, Some(Token("item", "point", None, FALSE, 1)),
                        Some(Token("item", "point_box", None, FALSE, 2))}} :
           tag \in ItemTags}

\* A collection, with or without a mention, around an item tag whose
\* mention attribute is empty, mention="", alone or followed by an item tag
\* without a mention.
WithEmptyMention ==
  {<<Token("open", "collection", c, FALSE, 0),
     Token("item", tag, Some(<<>>), e, 3),
     Token("close", "collection", None, FALSE, 0)>> :
     tag \in ItemTags, c \in {None, Some(<<"c">>)}, e \in BOOLEAN}
    \cup {<<Token("open", "collection", c, FALSE, 0),
             Token("item", tag, Some(<<>>), FALSE, 3),
             Token("item", tag, None, FALSE, 3),
             Token("close", "collection", None, FALSE, 0)>> :
             tag \in ItemTags, c \in {None, Some(<<"c">>)}}

TextDocs == WithBigPairs \cup WithSplitTags \cup WithEmptyMention

InitTexts ==
  /\ doc \in TextDocs
  /\ text = RenderText(doc)
  /\ format \in OutputFormat
  /\ result = None
  /\ scan = None
  /\ pc = "ready"
  /\ NoClient
  /\ NoThreads

SpecTexts == InitTexts /\ [][Next]_vars

(***************************************************************************)
(* extract followed match by match: the loop of replace_all over the       *)
(* collections, the loop of the closure over the matches of a collection   *)
(* body, and the loop over the matches of the remaining text               *)
(***************************************************************************)

\* Most tokens a document scanned match by match holds.
MaxScan == 3

ScanTokens ==
  {Token("item", "point", None, FALSE, 1),
   Token("item", "point", Some(<<"a">>), FALSE, 2),
   Token("item", "point_box", Some(<<"b">>), FALSE, 2),
   Token("open", "collection", Some(<<"c">>), FALSE, 0),
   Token("close", "collection", None, FALSE, 0)}

ScanDocs == SeqsUpTo(ScanTokens, MaxScan)

\* The Option<Pointing> extract makes of the list of a kind.
PointingOf(f, items) ==
  CASE f = "Point" -> Wrap("Points", items)
    [] f = "Box" -> Wrap("Boxes", items)
    [] f = "Polygon" -> Wrap("Polygons", items)

\* A match the scan visited: the loop, the text it scans (0 the text or the
\* remaining text, c the body of the c-th collection) and the span.
Visit(pass, hay, m) ==
  [pass |-> pass, hay |-> hay, start |-> m.start, end |-> m.end]

InitScan ==
  /\ doc \in ScanDocs
  /\ text = Render(doc)
  /\ format \in OutputFormat
  /\ result = None
  /\ scan = None
  /\ pc = "ready"
  /\ NoClient
  /\ NoThreads

\* extract is called: for Text it returns None, for the other kinds it
\* enters extract_items, and replace_all starts at the start of the text.
Enter ==
  /\ pc = "ready"
  /\ IF format = "Text"
     THEN /\ pc' = "done"
          /\ scan' = scan
     ELSE /\ pc' = "scanning"
          /\ scan' = [pass |-> "collections", at |-> 1, colls |-> <<>>,
                      visited |-> <<>>, items |-> <<>>]
  /\ UNCHANGED <<doc, text, format, result>>
  /\ UNCHANGED clientVars
  /\ UNCHANGED threadVars

\* replace_all looks for the next collection from where the scan sc stands
\* in the text s: it calls the closure on it, or, when there is none,
\* returns the remaining text.
CollectionStep(sc, s) ==
  LET m == TagFind(COLLECTION_REGEX, s, sc.at)
  IN IF m = None
     THEN [sc EXCEPT !.pass = "standalone", !.at = 1]
     ELSE [sc EXCEPT !.pass = "inner", !.at = 1,
                     !.colls = Append(@, m[1]),
                     !.visited = Append(@, Visit("collections", 0, m[1]))]

\* The closure looks for the next item tag of the collection body: it
\* pushes its annotation if the constructor accepts it, or, when there is
\* none, returns to replace_all, which resumes behind the collection.
InnerStep(sc, f) ==
  LET cap == sc.colls[Len(sc.colls)]
      m   == TagFind(item_regex(f), cap.body, sc.at)
  IN IF m = None
     THEN [sc EXCEPT !.pass = "collections", !.at = Resume(cap)]
     ELSE LET parent_mention == parse_mention(cap.attrs)
              child_mention  == parse_mention(m[1].attrs)
              mention == IF child_mention # None THEN child_mention
                         ELSE parent_mention
              item == Call(ParseFn(f), parse_coords(m[1].body), mention)
          IN [sc EXCEPT
                !.at = Resume(m[1]),
                !.visited = Append(@, Visit("inner", Len(sc.colls), m[1])),
                !.items = IF item = None THEN @ ELSE Append(@, item[1])]

\* The loop over the remaining text looks for the next item tag: it pushes
\* its annotation if the constructor accepts it, or, when there is none,
\* extract_items returns.
StandaloneStep(sc, s, f) ==
  LET kept      == KeptPositions(sc.colls, 1, Len(s))
      remaining == Remaining(s, kept)
      m         == TagFind(item_regex(f), remaining, sc.at)
  IN IF m = None
     THEN [sc EXCEPT !.pass = "returned"]
     ELSE LET item == Call(ParseFn(f), parse_coords(m[1].body),
                           parse_mention(m[1].attrs))
          IN [sc EXCEPT
                !.at = Resume(m[1]),
                !.visited = Append(@, Visit("standalone", 0, m[1])),
                !.items = IF item = None THEN @ ELSE Append(@, item[1])]

NextCollection ==
  /\ pc = "scanning" /\ scan.pass = "collections"
  /\ scan' = CollectionStep(scan, text)
  /\ UNCHANGED <<doc, text, format, result, pc>>
  /\ UNCHANGED clientVars
  /\ UNCHANGED threadVars

NextInner ==
  /\ pc = "scanning" /\ scan.pass = "inner"
  /\ scan' = InnerStep(scan, format)
  /\ UNCHANGED <<doc, text, format, result, pc>>
  /\ UNCHANGED clientVars
  /\ UNCHANGED threadVars

\* When extract_items has returned, extract wraps the list.
NextStandalone ==
  /\ pc = "scanning" /\ scan.pass = "standalone"
  /\ scan' = StandaloneStep(scan, text, format)
  /\ IF scan'.pass = "returned"
     THEN result' = PointingOf(format, scan'.items) /\ pc' = "done"
     ELSE UNCHANGED <<result, pc>>
  /\ UNCHANGED <<doc, text, format>>
  /\ UNCHANGED clientVars
  /\ UNCHANGED threadVars

NextScan == Enter \/ NextCollection \/ NextInner \/ NextStandalone

\* The loops go on until extract_items returns: the thread that runs
\* extract is never suspended for ever.  This is weak fairness of the three
\* steps of the loops with their enabling condition written out: one of
\* them is enabled exactly while pc = "scanning", and each of them changes
\* scan.
Running == []<>(pc # "scanning") \/ []<><<NextScan>>_vars

\* A call that is made is started, and a call that has started goes on
\* until it returns.
SpecScan == InitScan /\ [][NextScan]_vars /\ WF_vars(Enter) /\ Running

(***************************************************************************)
(* The client: a method sends the request, complete reads the reply, and   *)
(* send_and_extract runs extract on the content of the first choice        *)
(***************************************************************************)

Ok(v) == [ok |-> TRUE, value |-> v]

Err(e) == [ok |-> FALSE, error |-> e]

\* StatusCode::is_success with the status taken for a failure up to 399 only.
is_success_Below400(status) == status < 400

\* StatusCode::is_success: the status is 2xx.
is_success(status) == 200 <= status /\ status <= 299

\* The statuses the API answers with.
Statuses == {200, 201, 301, 400, 500}

\* The contents of a completion: free text, a point tag after free text, and
\* a point_box tag.
Contents ==
  {Render(<<Token("text", "words", None, FALSE, 0)>>),
   Render(<<Token("text", "words", None, FALSE, 0),
            Token("item", "point", Some(<<"a">>), FALSE, 1)>>),
   Render(<<Token("item", "point_box", Some(<<"a">>), FALSE, 2)>>)}

Choice(content, reasoning) ==
  [message |-> [content |-> content, reasoning_content |-> reasoning]]

\* A body as the client reads it: read is its text, None when reading it
\* fails; error is the message serde finds when the text is an
\* ApiErrorResponse, completion the choices when the text is a
\* CreateChatCompletionResponse.
Body(read, error, completion) ==
  [read |-> read, error |-> error, completion |-> completion]

Bodies ==
  {Body(None, None, None),
   Body(Some("{\"error\":{\"message\":\"internal server error\",\"type\":\"server_error\"}}"),
        Some("internal server error"), None),
   Body(Some("Bad Gateway"), None, None),
   Body(Some("{\"choices\":[]}"), None, Some(<<>>))}
    \cup {Body(Some("{\"choices\":[{\"message\":...}]}"), None,
               Some(<<Choice(c, r)>>)) :
            c \in {None} \cup {Some(t) : t \in Contents},
            r \in {None, Some("because")}}
    \cup {Body(Some("{\"choices\":[{\"message\":...},{\"message\":...}]}"),
               None,
               Some(<<Choice(Some(t), None), Choice(None, None)>>)) :
            t \in Contents}

\* The part of complete after the reply has arrived.
complete(response) ==
  IF ~is_success(response.status)
  THEN IF response.body.read = None
       THEN Err([kind |-> "ParseFailed", msg |-> "error reading body"])
       ELSE Err([kind |-> "ApiError", status |-> response.status,
                 detail |->
                   [message |->
                      IF response.body.error # None
                      THEN <<response.body.error[1]>>
                      ELSE <<"Failed to parse error response body: ",
                             response.body.read[1]>>]])
  ELSE IF response.body.completion = None
       THEN Err([kind |-> "ParseFailed", msg |-> "error decoding body"])
       ELSE Ok([choices |-> response.body.completion[1]])

\* From<ChatCompletionError> for PerceptronError; as_u16 of a status code
\* is its number.
from(err) ==
  CASE err.kind = "RequestFailed" ->
         [kind |-> "RequestFailed", msg |-> err.msg]
    [] err.kind = "ApiError" ->
         [kind |-> "ApiError", status |-> err.status % 65536,
          detail |-> err.detail]
    [] err.kind = "ParseFailed" -> [kind |-> "ParseFailed", msg |-> err.msg]

\* send_and_extract that takes a completion without choices for an error.
send_and_extract_EmptyIsError(completed, output_format) ==
  IF ~completed.ok \/ completed.value.choices = <<>>
  THEN [returned |-> Err([kind |-> "ParseFailed", msg |-> "no choices"]),
        extracted |-> 0]
  ELSE LET choice == Head(completed.value.choices)
       IN [returned |->
             Ok([content |-> choice.message.content,
                 reasoning |-> choice.message.reasoning_content,
                 pointing |->
                   IF choice.message.content = None THEN None
                   ELSE extract(choice.message.content[1], output_format)]),
           extracted |-> IF choice.message.content = None THEN 0 ELSE 1]

\* send_and_extract from the result of complete on: what it returns and how
\* often it calls extract.
send_and_extract(completed, output_format) ==
  IF ~completed.ok
  THEN [returned |-> Err(from(completed.error)), extracted |-> 0]
  ELSE IF completed.value.choices = <<>>
  THEN [returned |->
          Ok([content |-> None, reasoning |-> None, pointing |-> None]),
        extracted |-> 0]
  ELSE LET choice == Head(completed.value.choices)
       IN [returned |->
             Ok([content |-> choice.message.content,
                 reasoning |-> choice.message.reasoning_content,
                 pointing |->
                   IF choice.message.content = None THEN None
                   ELSE extract(choice.message.content[1], output_format)]),
           extracted |-> IF choice.message.content = None THEN 0 ELSE 1]

\* send from the result of complete on.
send(completed) ==
  IF ~completed.ok
  THEN [returned |-> Err(from(completed.error)), extracted |-> 0]
  ELSE IF completed.value.choices = <<>>
  THEN [returned |-> Ok([content |-> None, reasoning |-> None]),
        extracted |-> 0]
  ELSE LET choice == Head(completed.value.choices)
       IN [returned |->
             Ok([content |-> choice.message.content,
                 reasoning |-> choice.message.reasoning_content]),
           extracted |-> 0]

\* The requests: the method and the output_format field of its request.
Requests ==
  {[method |-> m, output_format |-> f] :
     m \in {"analyze", "caption"},
     f \in {None} \cup {Some(o) : o \in OutputFormat}}
    \cup {[method |-> "detect", output_format |-> None],
          [method |-> "ocr", output_format |-> None]}

\* output_format with analyze falling back to Box, as caption does.
output_format_AnalyzeBox(req) ==
  CASE req.method \in {"analyze", "caption"} ->
         IF req.output_format = None THEN "Box" ELSE req.output_format[1]
    [] req.method = "detect" -> "Box"

\* The format a method hands to send_and_extract.
output_format(req) ==
  CASE req.method = "analyze" ->
         IF req.output_format = None THEN "Text" ELSE req.output_format[1]
    [] req.method = "caption" ->
         IF req.output_format = None THEN "Box" ELSE req.output_format[1]
    [] req.method = "detect" -> "Box"

\* What a method returns from the result of complete on.
Method(req, completed) ==
  IF req.method = "ocr" THEN send(completed)
  ELSE send_and_extract(completed, output_format(req))

InitClient ==
  /\ doc = <<>> /\ text = <<>> /\ format = "Text" /\ result = None
  /\ scan = None
  /\ pc = "ready"
  /\ request \in Requests
  /\ http = None
  /\ outcome = None
  /\ calls = 0
  /\ wire = None
  /\ NoThreads

\* The request is sent and the status line and headers of a reply arrive.
Reply ==
  /\ pc = "ready" /\ request # None
  /\ \E status \in Statuses, body \in Bodies :
       http' = Some([status |-> status, body |-> body])
  /\ pc' = "replied"
  /\ UNCHANGED <<request, outcome, calls, wire>>
  /\ UNCHANGED engineVars
  /\ UNCHANGED threadVars

\* Sending the request fails: complete returns RequestFailed, and send and
\* send_and_extract pass it on with the ? operator.
SendFails ==
  /\ pc = "ready" /\ request # None
  /\ outcome' = Some(Err(from([kind |-> "RequestFailed",
                               msg |-> "error sending request"])))
  /\ pc' = "returned"
  /\ UNCHANGED <<request, http, calls, wire>>
  /\ UNCHANGED engineVars
  /\ UNCHANGED threadVars

\* complete reads the body of the reply and the method returns.
Return ==
  /\ pc = "replied"
  /\ LET r == Method(request, complete(http[1]))
     IN outcome' = Some(r.returned) /\ calls' = calls + r.extracted
  /\ pc' = "returned"
  /\ UNCHANGED <<request, http, wire>>
  /\ UNCHANGED engineVars
  /\ UNCHANGED threadVars

NextClient == Reply \/ SendFails \/ Return

SpecClient == InitClient /\ [][NextClient]_vars

(***************************************************************************)
(* The request: a method builds a descriptor, with the hint of system_hint *)
(* as far as there is one, and build_wire_request makes the messages of it *)
(***************************************************************************)

\* Option::unwrap_or.
unwrap_or(opt, default) == IF opt = None THEN default ELSE opt[1]

\* [&str]::join: the strings with sep between each two.
RECURSIVE join(_, _)
join(strs, sep) ==
  IF strs = <<>> THEN ""
  ELSE IF Len(strs) = 1 THEN strs[1]
  ELSE strs[1] \o sep \o join(Tail(strs), sep)

\* system_hint pushing THINK before the keyword of the format.
system_hint_ThinkFirst(fmt, enable_reasoning) ==
  LET components ==
        (IF unwrap_or(enable_reasoning, FALSE) THEN <<"THINK">> ELSE <<>>)
          \o (CASE fmt = Some("Point") -> <<"POINT">>
                [] fmt = Some("Box") -> <<"BOX">>
                [] fmt = Some("Polygon") -> <<"POLYGON">>
                [] OTHER -> <<>>)
  IN IF components = <<>> THEN None
     ELSE Some("<hint>" \o join(components, " ") \o "</hint>")

\* system_hint: fmt is its output_format argument, an Option.
system_hint(fmt, enable_reasoning) ==
  LET components ==
        (CASE fmt = Some("Point") -> <<"POINT">>
           [] fmt = Some("Box") -> <<"BOX">>
           [] fmt = Some("Polygon") -> <<"POLYGON">>
           [] OTHER -> <<>>)
          \o (IF unwrap_or(enable_reasoning, FALSE) THEN <<"THINK">> ELSE <<>>)
  IN IF components = <<>> THEN None
     ELSE Some("<hint>" \o join(components, " ") \o "</hint>")

\* Option::into_iter().collect(): the Vec of the value, if any.
into_iter(opt) == IF opt = None THEN <<>> ELSE <<opt[1]>>

ocr_system ==
  "You are an OCR (Optical Character Recognition) system. Accurately detect, extract, and transcribe all readable text from the image."

\* The system prompt of detect.
domain_system(classes) ==
  IF classes # None /\ classes[1] # <<>>
  THEN "Your goal is to segment out the following categories: "
         \o join(classes[1], ", ")
  ELSE "Your goal is to segment out the objects in the scene"

\* The user text of caption.
CaptionText(style) ==
  CASE style = "Concise" ->
         "Provide a concise, human-friendly caption for the upcoming image."
    [] style = "Detailed" ->
         "Provide a detailed caption describing key objects, relationships, and context in the upcoming image."

\* The user text of ocr.
OcrText(mode) ==
  CASE mode = "Plain" -> None
    [] mode = "Markdown" ->
         Some("Transcribe every readable word in the image using Markdown formatting with headings, lists, tables, and other structural elements as appropriate.")
    [] mode = "Html" ->
         Some("Transcribe every readable word in the image using HTML markup.")

\* The RequestDescriptor a method builds: media, system_prompts, user_text.
Descriptor(req) ==
  CASE req.method = "analyze" ->
         [media |-> req.media,
          system_prompts |->
            into_iter(system_hint(Some(output_format(req)), req.reasoning)),
          user_text |-> Some(req.message)]
    [] req.method = "caption" ->
         [media |-> req.media,
          system_prompts |->
            into_iter(system_hint(Some(output_format(req)), req.reasoning)),
          user_text |-> Some(CaptionText(req.style))]
    [] req.method = "ocr" ->
         [media |-> req.media,
          system_prompts |->
            Append(into_iter(system_hint(None, req.reasoning)), ocr_system),
          user_text |-> OcrText(req.mode)]
    [] req.method = "detect" ->
         [media |-> req.media,
          system_prompts |->
            Append(into_iter(system_hint(Some("Box"), req.reasoning)),
                   domain_system(req.classes)),
          user_text |-> None]

\* The content part of the media: an image_url or a video_url part.
media_part(media) ==
  CASE media.media_type = "Image" -> [type |-> "image_url", url |-> media.url]
    [] media.media_type = "Video" -> [type |-> "video_url", url |-> media.url]

\* build_wire_request, its messages: one system message per system prompt,
\* in their order, then the user message of the media part and the text.
build_wire_request(desc) ==
  [i \in 1..Len(desc.system_prompts) |->
     [role |-> "system", content |-> desc.system_prompts[i]]]
    \o <<[role |-> "user",
          content |->
            <<media_part(desc.media)>>
              \o (IF desc.user_text = None THEN <<>>
                  ELSE <<[type |-> "text", text |-> desc.user_text[1]]>>)]>>

Medias ==
  {[media_type |-> "Image", url |-> "https://example.com/img.jpg"],
   [media_type |-> "Video", url |-> "https://example.com/clip.mp4"]}

\* The reasoning field of a request.
Reasonings == {None, Some(TRUE), Some(FALSE)}

\* The requests of the four methods, with the fields the messages are made of.
MethodRequests ==
  {[method |-> "analyze", output_format |-> f, reasoning |-> r, media |-> m,
    message |-> "What is in the image?"] :
     f \in {None} \cup {Some(o) : o \in OutputFormat}, r \in Reasonings,
     m \in Medias}
    \cup {[method |-> "caption", output_format |-> f, reasoning |-> r,
           media |-> m, style |-> s] :
            f \in {None} \cup {Some(o) : o \in OutputFormat},
            r \in Reasonings, m \in Medias, s \in {"Concise", "Detailed"}}
    \cup {[method |-> "ocr", reasoning |-> r, media |-> m, mode |-> o] :
            r \in Reasonings, m \in Medias,
            o \in {"Plain", "Markdown", "Html"}}
    \cup {[method |-> "detect", reasoning |-> r, media |-> m, classes |-> c] :
            r \in Reasonings, m \in Medias,
            c \in {None, Some(<<>>), Some(<<"cat", "dog">>)}}

InitRequest ==
  /\ doc = <<>> /\ text = <<>> /\ format = "Text" /\ result = None
  /\ scan = None
  /\ pc = "ready"
  /\ request \in MethodRequests
  /\ http = None /\ outcome = None /\ calls = 0
  /\ wire = None
  /\ NoThreads

\* The method builds the wire request it hands to send or send_and_extract.
Build ==
  /\ pc = "ready" /\ request # None
  /\ wire' = Some(build_wire_request(Descriptor(request)))
  /\ pc' = "built"
  /\ UNCHANGED <<request, http, outcome, calls>>
  /\ UNCHANGED engineVars
  /\ UNCHANGED threadVars

NextRequest == Build

SpecRequest == InitRequest /\ [][NextRequest]_vars

(***************************************************************************)
(* Threads: each thread calls extract; the patterns are LazyLock statics,  *)
(* compiled by the first thread that needs them                            *)
(***************************************************************************)

\* Most calls a thread makes.
MaxCalls == 2

Threads == {"t1", "t2"}

Statics ==
  {"POINT_REGEX", "BOX_REGEX", "POLYGON_REGEX", "COLLECTION_REGEX",
   "COORD_REGEX", "MENTION_REGEX"}

\* What the closure given to LazyLock::new returns: the compiled pattern.
\* The coordinate pattern is stood for by its source.
Initializer(static) ==
  CASE static = "POINT_REGEX" -> POINT_REGEX
    [] static = "BOX_REGEX" -> BOX_REGEX
    [] static = "POLYGON_REGEX" -> POLYGON_REGEX
    [] static = "COLLECTION_REGEX" -> COLLECTION_REGEX
    [] static = "COORD_REGEX" -> "\\(\\s*(\\d+)\\s*,\\s*(\\d+)\\s*\\)"
    [] static = "MENTION_REGEX" -> MENTION_REGEX

\* The static item_regex returns a reference to.
ItemStatic(f) ==
  CASE f = "Point" -> "POINT_REGEX" [] f = "Box" -> "BOX_REGEX"
    [] f = "Polygon" -> "POLYGON_REGEX"

\* A sequence without the later occurrences of its elements.
RECURSIVE FirstUses(_, _)
FirstUses(seq, seen) ==
  IF seq = <<>> THEN <<>>
  ELSE IF Head(seq) \in seen THEN FirstUses(Tail(seq), seen)
  ELSE <<Head(seq)>> \o FirstUses(Tail(seq), seen \cup {Head(seq)})

\* The statics extract(input, f) dereferences, in the order of their
\* first use: none for Text; else the item pattern in item_regex, the
\* collection pattern in replace_all, the mention pattern in the closure of
\* each collection match, the coordinate pattern for each inner match, and
\* for each standalone match the coordinate pattern and then the mention
\* pattern, as the arguments of parse_fn are evaluated.
Uses(input, f) ==
  IF f = "Text" THEN <<>>
  ELSE
    LET target    == item_regex(f)
        colls     == captures_iter(COLLECTION_REGEX, input)
        kept      == KeptPositions(colls, 1, Len(input))
        remaining == [i \in 1..Len(kept) |-> input[kept[i]]]
        inner     == \E c \in DOMAIN colls :
                       captures_iter(target, colls[c].body) # <<>>
        alone     == captures_iter(target, remaining) # <<>>
    IN FirstUses(<<ItemStatic(f), "COLLECTION_REGEX">>
                   \o (IF colls # <<>> THEN <<"MENTION_REGEX">> ELSE <<>>)
                   \o (IF inner THEN <<"COORD_REGEX">> ELSE <<>>)
                   \o (IF alone THEN <<"COORD_REGEX", "MENTION_REGEX">>
                       ELSE <<>>),
                 {})

\* A LazyLock whose closure may be run while another thread runs it.
CanInitialize_Racy(cell) == cell.state # "complete"

\* Once::call_once: the closure is run by the thread that finds the cell
\* incomplete; the test and the change to running are one atomic step.
CanInitialize(cell) == cell.state = "incomplete"

\* A dereference returns when the cell is complete; until then the thread
\* waits.
CanRead(cell) == cell.state = "complete"

\* results that is not a fresh Vec on each call.
NewResults_Kept(old) == old

\* let mut results = Vec::new()
NewResults(old) == <<>>

\* The calls the threads make: a point tag in a collection read for
\* points and for boxes, and a standalone point tag read for points.
ThreadCalls ==
  LET inCollection ==
        Render(<<Token("open", "collection", Some(<<"c">>), FALSE, 0),
                 Token("item", "point", None, FALSE, 1),
                 Token("close", "collection", None, FALSE, 0)>>)
      alone == Render(<<Token("item", "point", Some(<<"a">>), FALSE, 2)>>)
  IN <<[text |-> inCollection, format |-> "Point"],
       [text |-> inCollection, format |-> "Box"],
       [text |-> alone, format |-> "Point"]>>

\* The item patterns a cell can hold.
ItemPatterns == {POINT_REGEX, BOX_REGEX, POLYGON_REGEX}

\* What a thread returns: the items extract_items finds with the item
\* pattern the cell gave the thread, pushed onto its results.
ThreadReturn(th) ==
  IF th.format = "Text" THEN None
  ELSE
    LET items == th.results \o inputs[th.input].items[th.got[1][1]]
    IN CASE th.format = "Point" -> Wrap("Points", items)
         [] th.format = "Box" -> Wrap("Boxes", items)
         [] th.format = "Polygon" -> Wrap("Polygons", items)

InitThreads ==
  /\ doc = <<>> /\ text = <<>> /\ format = "Text" /\ result = None
  /\ scan = None
  /\ pc = "ready"
  /\ NoClient
  /\ inputs = [c \in DOMAIN ThreadCalls |->
                 [text |-> ThreadCalls[c].text,
                  format |-> ThreadCalls[c].format,
                  uses |-> Uses(ThreadCalls[c].text, ThreadCalls[c].format),
                  items |-> [target_regex \in ItemPatterns |->
                               extract_items(ThreadCalls[c].text,
                                             target_regex,
                                             ParseFn(ThreadCalls[c].format))],
                  alone |-> extract(ThreadCalls[c].text,
                                    ThreadCalls[c].format)]]
  /\ cells = [s \in Statics |->
                [state |-> "incomplete", value |-> None, stores |-> <<>>]]
  /\ threads = [t \in Threads |->
                  [phase |-> "idle", input |-> 0, text |-> <<>>,
                   format |-> "Text",
                   uses |-> <<>>, at |-> 1, got |-> <<>>, results |-> <<>>,
                   made |-> 0]]
  /\ log = <<>>

\* A thread calls extract.
CallExtract(t) ==
  /\ threads # <<>> /\ threads[t].phase = "idle"
  /\ threads[t].made < MaxCalls
  /\ \E c \in DOMAIN inputs :
       threads' = [threads EXCEPT ![t] =
                     [phase |-> "running", input |-> c,
                      text |-> inputs[c].text, format |-> inputs[c].format,
                      uses |-> inputs[c].uses, at |-> 1, got |-> <<>>,
                      results |-> NewResults(threads[t].results),
                      made |-> threads[t].made + 1]]
  /\ UNCHANGED <<inputs, cells, log, pc>>
  /\ UNCHANGED engineVars
  /\ UNCHANGED clientVars

\* A thread dereferences a static whose closure has not run and starts to
\* run it.
Begin(t) ==
  /\ threads # <<>> /\ threads[t].phase = "running"
  /\ threads[t].at <= Len(threads[t].uses)
  /\ LET s == threads[t].uses[threads[t].at]
     IN /\ CanInitialize(cells[s])
        /\ cells' = [cells EXCEPT ![s].state = "running"]
  /\ threads' = [threads EXCEPT ![t].phase = "initializing"]
  /\ UNCHANGED <<inputs, log, pc>>
  /\ UNCHANGED engineVars
  /\ UNCHANGED clientVars

\* The closure returns: the pattern is stored and the cell is complete.
Finish(t) ==
  /\ threads # <<>> /\ threads[t].phase = "initializing"
  /\ LET s == threads[t].uses[threads[t].at]
     IN cells' = [cells EXCEPT ![s] =
                    [state |-> "complete", value |-> Some(Initializer(s)),
                     stores |-> Append(cells[s].stores, Initializer(s))]]
  /\ threads' = [threads EXCEPT ![t].phase = "running"]
  /\ UNCHANGED <<inputs, log, pc>>
  /\ UNCHANGED engineVars
  /\ UNCHANGED clientVars

\* A dereference of a complete cell gives the thread the stored pattern.
Deref(t) ==
  /\ threads # <<>> /\ threads[t].phase = "running"
  /\ threads[t].at <= Len(threads[t].uses)
  /\ LET s == threads[t].uses[threads[t].at]
     IN /\ CanRead(cells[s])
        /\ threads' = [threads EXCEPT
                         ![t].got = Append(@, cells[s].value),
                         ![t].at = @ + 1]
  /\ UNCHANGED <<inputs, cells, log, pc>>
  /\ UNCHANGED engineVars
  /\ UNCHANGED clientVars

\* extract returns to the thread.
Returns(t) ==
  /\ threads # <<>> /\ threads[t].phase = "running"
  /\ threads[t].at > Len(threads[t].uses)
  /\ LET r == ThreadReturn(threads[t])
     IN /\ log' = Append(log, [thread |-> t, input |-> threads[t].input,
                               result |-> r])
        /\ threads' = [threads EXCEPT
                         ![t].phase = "idle",
                         ![t].results = IF r = None THEN <<>> ELSE r[1].list]
  /\ UNCHANGED <<inputs, cells, pc>>
  /\ UNCHANGED engineVars
  /\ UNCHANGED clientVars

NextThreads ==
  \E t \in Threads :
    CallExtract(t) \/ Begin(t) \/ Finish(t) \/ Deref(t) \/ Returns(t)

SpecThreads == InitThreads /\ [][NextThreads]_vars

(***************************************************************************)
(* What the documents say about the tags of the text                       *)
(***************************************************************************)

FormatTag(f) ==
  CASE f = "Point" -> "point" [] f = "Box" -> "point_box"
    [] f = "Polygon" -> "polygon" [] f = "Text" -> "none"

FormatVariant(f) ==
  CASE f = "Point" -> "Points" [] f = "Box" -> "Boxes"
    [] f = "Polygon" -> "Polygons" [] f = "Text" -> "none"

FormatFields(f) ==
  CASE f = "Point" -> {"x", "y", "mention"}
    [] f = "Box" -> {"x1", "y1", "x2", "y2", "mention"}
    [] f = "Polygon" -> {"hull", "mention"}
    [] f = "Text" -> {}

MinCoords(f) ==
  CASE f = "Point" -> 1 [] f = "Box" -> 2 [] f = "Polygon" -> 3
    [] f = "Text" -> 0

Items(d) == {k \in 1..Len(d) : d[k].t = "item"}

\* The list extract returned, empty for None.
ResultList == IF result = None THEN <<>> ELSE result[1].list

\* The first coordinate pair an annotation holds.
FirstCoord(item) ==
  IF "x" \in DOMAIN item THEN <<item.x, item.y>>
  ELSE IF "x1" \in DOMAIN item THEN <<item.x1, item.y1>>
  ELSE item.hull[1]

\* The token whose coordinates an annotation holds (see Coord).
SourceToken(item) == FirstCoord(item)[1] \div 10

\* Is token k between the opening and the closing tag of a collection?
Inside(d, k) ==
  \E i \in 1..(k - 1) :
    d[i].t = "open" /\ \A m \in (i + 1)..(k - 1) : d[m].t = "item"

\* The opening tag of the collection token k is inside of.
Parent(d, k) ==
  CHOOSE i \in 1..(k - 1) :
    d[i].t = "open" /\ \A m \in (i + 1)..(k - 1) : d[m].t = "item"

\* The mention the document gives an annotation built from token k.
DocMention(d, k) ==
  IF d[k].mention # None THEN d[k].mention
  ELSE IF Inside(d, k) THEN d[Parent(d, k)].mention
  ELSE None

\* Does token k carry the tag name of the format and enough coordinates?
ValidItem(d, f, k) ==
  d[k].t = "item" /\ d[k].tag = FormatTag(f) /\ d[k].n >= MinCoords(f)

\* The tokens the annotations of a well-formed document come from, in the
\* order the ordering law gives: inside collections first, then standalone.
ExpectedSources(d, f) ==
  SelectSeq(Range(1, Len(d)), LAMBDA k : ValidItem(d, f, k) /\ Inside(d, k))
    \o SelectSeq(Range(1, Len(d)),
                 LAMBDA k : ValidItem(d, f, k) /\ ~Inside(d, k))

\* No tag of the document has a name that only begins with the name of the
\* format's tag.
ExactNames(d, f) ==
  f = "Point" => \A k \in Items(d) : d[k].tag # "point_box"

ResultSources == [i \in 1..Len(ResultList) |-> SourceToken(ResultList[i])]

\* All coordinate pairs an annotation holds.
AllCoords(item) ==
  IF "x" \in DOMAIN item THEN <<(<<item.x, item.y>>)>>
  ELSE IF "x1" \in DOMAIN item
       THEN <<(<<item.x1, item.y1>>), (<<item.x2, item.y2>>)>>
  ELSE item.hull

(***************************************************************************)
(* The claims                                                              *)
(***************************************************************************)

\* C1: whatever the text, tags and collections included, extract(text, Text)
\* is None.
C1_TextYieldsNone == (pc = "done" /\ format = "Text") => result = None

\* C1 witness: extract returned for Text on a text that holds a collection
\* and from which extract for Point returns annotations.
C1_Witness ==
  /\ pc = "done" /\ format = "Text" /\ result = None
  /\ \E k \in 1..Len(doc) : doc[k].t = "open"
  /\ extract(text, "Point") # None

\* C2: extract never returns Some of an empty list; when every item tag of
\* the text has fewer coordinates than the kind needs, it returns None.
C2_NeverSomeEmpty ==
  pc = "done" =>
    /\ result # None => Len(result[1].list) >= 1
    /\ (\A k \in Items(doc) : doc[k].n < MinCoords(format)) => result = None

\* C2 witness: a tag of the requested kind was matched and dropped, and the
\* result is None.
C2_Witness ==
  /\ pc = "done" /\ format = "Point" /\ result = None
  /\ \E k \in Items(doc) : doc[k].tag = "point" /\ doc[k].n = 0

\* C3: a result that is Some holds the variant of the requested kind, and
\* every element of its list has the fields of that kind.
C3_VariantOfKind ==
  (pc = "done" /\ result # None) =>
    /\ result[1].variant = FormatVariant(format)
    /\ \A i \in 1..Len(result[1].list) :
         DOMAIN result[1].list[i] = FormatFields(format)

\* C3 witness: a text with tags of two kinds, and a result for Box.
C3_Witness ==
  /\ pc = "done" /\ format = "Box" /\ result # None
  /\ \E k \in Items(doc) : doc[k].tag = "point" /\ doc[k].n >= 2

C4_WitnessInner ==
  /\ pc = "done" /\ WellFormed(doc) /\ Len(doc) = 5
  /\ doc[2].t = "open" /\ doc[5].t = "close"
  /\ Len(ResultList) = 3
  /\ SourceToken(ResultList[1]) = 3
  /\ SourceToken(ResultList[2]) = 4
  /\ SourceToken(ResultList[3]) = 1

\* C5: the mention of an annotation built from a tag inside a collection is
\* the tag's own mention if it has one, else the collection's mention if it
\* has one, else absent.
C5_MentionPrecedence ==
  (pc = "done" /\ WellFormed(doc)) =>
    \A i \in 1..Len(ResultList) :
      LET k == SourceToken(ResultList[i])
      IN /\ k \in Items(doc)
         /\ Inside(doc, k) => ResultList[i].mention = DocMention(doc, k)

\* C5 witness: a collection with a mention holds a tag with its own mention
\* and a tag without; the first keeps its own, the second gets the parent's.
C5_Witness ==
  /\ pc = "done" /\ WellFormed(doc) /\ Len(ResultList) = 2
  /\ LET k1 == SourceToken(ResultList[1])
         k2 == SourceToken(ResultList[2])
     IN /\ Inside(doc, k1) /\ Inside(doc, k2) /\ Parent(doc, k1) = Parent(doc, k2)
        /\ doc[Parent(doc, k1)].mention = Some(<<"c">>)
        /\ doc[k1].mention = Some(<<"a">>) /\ ResultList[1].mention = Some(<<"a">>)
        /\ doc[k2].mention = None /\ ResultList[2].mention = Some(<<"c">>)

\* C5 second witness: a tag without a mention in a collection without one.
C5_WitnessAbsent ==
  /\ pc = "done" /\ WellFormed(doc) /\ Len(ResultList) = 1
  /\ LET k == SourceToken(ResultList[1])
     IN /\ Inside(doc, k) /\ doc[Parent(doc, k)].mention = None
        /\ doc[k].mention = None /\ ResultList[1].mention = None

\* C6: every annotation holds coordinates of one tag that has at least the
\* minimum of the kind (Point 1, Box 2, Polygon 3), and only coordinates
\* written in that tag; a tag of the kind with fewer yields no annotation;
\* every returned hull has at least 3 vertices.
C6_MinimumCoordinates ==
  pc = "done" =>
    /\ \A i \in 1..Len(ResultList) :
         LET k == SourceToken(ResultList[i])
             cs == AllCoords(ResultList[i])
         IN /\ k \in Items(doc)
            /\ doc[k].n >= MinCoords(format)
            /\ Len(cs) >= MinCoords(format)
            /\ \A m \in 1..Len(cs) : cs[m] = Coord(k, m)
    /\ \A k \in Items(doc) :
         (doc[k].tag = FormatTag(format) /\ doc[k].n < MinCoords(format)) =>
           \A i \in 1..Len(ResultList) : SourceToken(ResultList[i]) # k

\* C6 witness: a polygon tag with two coordinates, dropped.
C6_Witness ==
  /\ pc = "done" /\ format = "Polygon" /\ result = None
  /\ doc[1].tag = "polygon" /\ doc[1].n = 2

\* C6 second witness: of two point tags the one without coordinates is
\* dropped and the other returned.
C6_WitnessSibling ==
  /\ pc = "done" /\ format = "Point" /\ Len(doc) = 2 /\ Len(ResultList) = 1
  /\ doc[1].tag = "point" /\ doc[1].n = 0
  /\ doc[2].tag = "point" /\ doc[2].n >= 1

\* C7: a Point holds the first coordinate of its tag; a point tag with one
\* or more coordinates, alone in the text, yields exactly one Point, with
\* that coordinate and the tag's mention.
C7_PointFirstCoordinate ==
  (pc = "done" /\ format = "Point") =>
    /\ \A i \in 1..Len(ResultList) :
         \E k \in Items(doc) :
           /\ doc[k].n >= 1
           /\ <<ResultList[i].x, ResultList[i].y>> = Coord(k, 1)
    /\ \A i, j \in 1..Len(ResultList) :
         i # j => SourceToken(ResultList[i]) # SourceToken(ResultList[j])
    /\ (Len(doc) = 1 /\ doc[1].tag = "point" /\ doc[1].n >= 1) =>
         ResultList = <<[x |-> Coord(1, 1)[1], y |-> Coord(1, 1)[2],
                         mention |-> doc[1].mention]>>

\* C7 witness: a point tag with three coordinates, one Point returned.
C7_Witness ==
  /\ pc = "done" /\ format = "Point" /\ Len(doc) = 1
  /\ doc[1].tag = "point" /\ doc[1].n = 3 /\ Len(ResultList) = 1

C9_HullIsAllCoordinates ==
  (pc = "done" /\ format = "Polygon") =>
    /\ \A i \in 1..Len(ResultList) :
         \E k \in Items(doc) :
           doc[k].n >= 3 /\ ResultList[i].hull = CoordsOf(k, doc[k].n)
    /\ (Len(doc) = 1 /\ doc[1].tag = "polygon" /\ doc[1].n >= 3) =>
         ResultList = <<[hull |-> CoordsOf(1, doc[1].n),
                         mention |-> doc[1].mention]>>

\* C9 witness: a polygon tag with four coordinates, the last equal to the
\* first; the hull has the four.
C9_Witness ==
  /\ pc = "done" /\ format = "Polygon" /\ Len(doc) = 1
  /\ doc[1].tag = "polygon" /\ doc[1].n = 4 /\ Len(ResultList) = 1
  /\ Len(ResultList[1].hull) = 4
  /\ ResultList[1].hull[4] = ResultList[1].hull[1]

\* The item tags of the requested kind that have too few coordinates.
Malformed(d, f) ==
  {k \in Items(d) : d[k].tag = FormatTag(f) /\ d[k].n < MinCoords(f)}

\* C10: when a complete item tag of the requested kind has too few
\* coordinates, the result is the one extract returns for the text without
\* that tag.
C10_DroppingIsPerItem ==
  (pc = "done" /\ format # "Text") =>
    \A k \in Malformed(doc, format) :
      result = extract(RenderWithout(doc, {k}), format)

\* C10 where no tag name only begins with the name of the format's tag.
C10_ExactNamesOnly ==
  (pc = "done" /\ format # "Text" /\ ExactNames(doc, format)) =>
    \A k \in Malformed(doc, format) :
      result = extract(RenderWithout(doc, {k}), format)

\* C11: extract never panics, whatever the text and the kind: for Text it
\* returns before item_regex is called, and parse_box reads coords[0] and
\* coords[1] only when there are at least two coordinates.
C11_NeverPanics == pc # "panicked"

\* C11 witness: extract returned for Box on a text whose point_box tag
\* holds one coordinate, and it returned for Text.
C11_Witness ==
  /\ pc = "done" /\ format = "Box" /\ result = None
  /\ \E k \in Items(doc) : doc[k].tag = "point_box" /\ doc[k].n = 1

C11_WitnessText ==
  pc = "done" /\ format = "Text" /\ \E k \in Items(doc) : doc[k].n >= 1
\* The annotation the document describes for its item tag k: the coordinates
\* the kind takes, as written in the tag, and the tag's mention attribute.
TagAnnotation(d, f, k) ==
  LET c == CoordsOf(k, d[k].n)
  IN CASE f = "Point" ->
            [x |-> c[1][1], y |-> c[1][2], mention |-> d[k].mention]
       [] f = "Box" ->
            [x1 |-> c[1][1], y1 |-> c[1][2], x2 |-> c[2][1], y2 |-> c[2][2],
             mention |-> d[k].mention]
       [] f = "Polygon" -> [hull |-> c, mention |-> d[k].mention]

\* The document is one item tag with free text around it, on either side,
\* on both or on none.
OneTagInFreeText(d) ==
  /\ Cardinality(Items(d)) = 1
  /\ \A k \in 1..Len(d) : d[k].t \in {"item", "text"}

\* C13: when the text holds exactly one tag, standalone, of the requested
\* kind and with enough coordinates, with any free text around it, extract
\* returns a list of exactly one annotation, with the coordinates written in
\* that tag and its mention attribute, absent if the tag has none.
C13_SingleValidTag ==
  (pc = "done" /\ OneTagInFreeText(doc)) =>
    \A k \in Items(doc) :
      ValidItem(doc, format, k) =>
        result = Some([variant |-> FormatVariant(format),
                       list |-> <<TagAnnotation(doc, format, k)>>])

\* C13 witness: a result for a tag that has free text on both sides, the
\* free text holding a coordinate pair and a ">".
C13_Witness ==
  /\ pc = "done" /\ format = "Box" /\ Len(doc) = 3 /\ result # None
  /\ doc[1].t = "text" /\ doc[1].tag = "marks"
  /\ ValidItem(doc, format, 2) /\ doc[2].mention = None
  /\ doc[3].t = "text"
\* The point_box tags of a document.
BoxTags(d) == {k \in Items(d) : d[k].tag = "point_box"}

\* C14: with kind Point, a point_box tag of the text, standalone or inside a
\* collection, is never matched as a point tag: no returned Point holds the
\* coordinates of a point_box tag, and the result is the one extract returns
\* for the text without its point_box tags.
C14_ExactTagNameOnly ==
  (pc = "done" /\ format = "Point") =>
    /\ \A i \in 1..Len(ResultList) :
         SourceToken(ResultList[i]) \notin BoxTags(doc)
    /\ result = extract(RenderWithout(doc, BoxTags(doc)), format)
\* The document is item tags only, each of the kind and with enough
\* coordinates.
AllValid(d, f) == d # <<>> /\ \A k \in 1..Len(d) : ValidItem(d, f, k)

\* C16: n well-formed item tags of the requested kind side by side, each
\* with enough coordinates, yield n annotations, one per tag in the order of
\* the tags, each with the coordinates and the mention of its own tag.
C16_OnePerAdjacentTag ==
  (pc = "done" /\ AllValid(doc, format)) =>
    result = Some([variant |-> FormatVariant(format),
                   list |-> [k \in 1..Len(doc) |->
                               TagAnnotation(doc, format, k)]])

\* C16 witness: three polygon tags side by side gave three polygons.
C16_Witness ==
  /\ pc = "done" /\ format = "Polygon" /\ AllValid(doc, format)
  /\ Len(doc) = 3 /\ Len(ResultList) = 3

\* C16 witness: two point tags side by side, the second with several
\* coordinates, gave two points.
C16_WitnessPoints ==
  /\ pc = "done" /\ format = "Point" /\ AllValid(doc, format)
  /\ Len(doc) = 2 /\ doc[2].n >= 2 /\ Len(ResultList) = 2
\* The document with every tag name in small letters.
InSmallLetters(d) ==
  [k \in 1..Len(d) |-> [d[k] EXCEPT !.caseOpen = "small",
                                    !.caseClose = "small"]]

WithCapitals(d) ==
  \E k \in 1..Len(d) : d[k].caseOpen # "small" \/ d[k].caseClose # "small"

\* C15: the letter case of the tag names, of item tags and of collection,
\* in the opening and in the closing tag independently, does not change the
\* result: extract returns what it returns for the text with every tag name
\* in small letters.
C15_CaseOfTagNames ==
  (pc = "done" /\ WithCapitals(doc)) =>
    result = extract(Render(InSmallLetters(doc)), format)

\* C15 witness: an item tag opened in capitals and closed in small letters
\* gave an annotation.
C15_Witness ==
  /\ pc = "done" /\ Len(doc) = 1 /\ result # None
  /\ doc[1].caseOpen = "capitals" /\ doc[1].caseClose = "small"

\* C15 witness: a collection opened with a capital initial and closed in
\* capitals, around an item tag, gave an annotation with the collection's
\* mention.
C15_WitnessCollection ==
  /\ pc = "done" /\ Len(doc) = 3 /\ result # None
  /\ doc[1].caseOpen = "initial" /\ doc[3].caseClose = "capitals"
  /\ doc[2].caseOpen = "small"
  /\ ResultList[1].mention = doc[1].mention
\* The attributes of a list that are named mention.
NamedMention(as) ==
  SelectSeq(as, LAMBDA a : a.name = <<"m", "e", "n", "t", "i", "o", "n">>)

\* Does a name end in "mention" after other characters?
LongerName(name) ==
  /\ Len(name) > 7
  /\ Slice(name, Len(name) - 6, Len(name))
       = <<"m", "e", "n", "t", "i", "o", "n">>

\* C17: the mention parse_mention resolves is the one it resolves from the
\* attributes named mention alone, whatever other attributes are added,
\* removed or changed; with no attribute named mention it is absent.
C17_OnlyMentionAttribute ==
  pc = "done" =>
    /\ result = parse_mention(RenderAttrList(NamedMention(doc)))
    /\ NamedMention(doc) = <<>> => result = None

\* C17 where every other attribute has a name that does not end in
\* "mention".
C17_NoNameEndingInMention ==
  (pc = "done" /\ \A k \in 1..Len(doc) : ~LongerName(doc[k].name)) =>
    /\ result = parse_mention(RenderAttrList(NamedMention(doc)))
    /\ NamedMention(doc) = <<>> => result = None
\* The methods built on send_and_extract.
Extracting == {"analyze", "caption", "detect"}

\* C19: when the completion arrives with a success status and holds no
\* choices, a method built on send_and_extract returns Ok with content,
\* reasoning and pointing all None, and extract is not called.
C19_NoChoices ==
  (/\ pc = "returned" /\ http # None /\ request.method \in Extracting
   /\ http[1].status \in 200..299
   /\ http[1].body.completion = Some(<<>>)) =>
    /\ outcome = Some(Ok([content |-> None, reasoning |-> None,
                         pointing |-> None]))
    /\ calls = 0

\* C19 witness: analyze asked for points, the completion had no choices,
\* and analyze has returned.
C19_Witness ==
  /\ pc = "returned" /\ http # None
  /\ request = [method |-> "analyze", output_format |-> Some("Point")]
  /\ http[1].status \in 200..299 /\ http[1].body.completion = Some(<<>>)
  /\ outcome # None /\ outcome[1].ok

C20_WitnessCompletionBody ==
  /\ pc = "returned" /\ http # None /\ request.method = "caption"
  /\ http[1].status = 301 /\ http[1].body.completion # None
  /\ http[1].body.completion # Some(<<>>)
  /\ outcome # None /\ ~outcome[1].ok /\ calls = 0
\* C12: two calls of extract with the same text and kind return equal
\* results, whichever threads made them, in whatever order, and whatever
\* other calls returned in between.
C12_SameCallSameResult ==
  \A i \in 1..Len(log) : \A j \in 1..Len(log) :
    (/\ inputs[log[i].input].text = inputs[log[j].input].text
     /\ inputs[log[i].input].format = inputs[log[j].input].format) =>
      log[i].result = log[j].result

\* C12 witness: one thread made the same call twice, and a call of the
\* other thread on another text returned in between.
C12_Witness ==
  \E i \in 1..Len(log) : \E j \in 1..Len(log) : \E k \in 1..Len(log) :
    /\ i < j /\ j < k
    /\ log[i].thread = log[k].thread /\ log[j].thread # log[i].thread
    /\ log[i].input = log[k].input
    /\ inputs[log[j].input].text # inputs[log[i].input].text
    /\ log[i].result # None /\ log[j].result # None

\* C18: at every point of every interleaving, each static has been stored
\* to at most once and, once complete, holds the compiled pattern; every
\* pattern a thread was given is the compiled one; and every call that
\* returned has the result extract gives for its text and kind when it is
\* run alone.
C18_InitializedOnce ==
  threads # <<>> =>
    /\ \A s \in Statics :
         /\ Len(cells[s].stores) <= 1
         /\ cells[s].state = "complete" =>
              /\ cells[s].value = Some(Initializer(s))
              /\ cells[s].stores = <<Initializer(s)>>
         /\ cells[s].state # "complete" => cells[s].value = None
    /\ \A t \in Threads : \A i \in 1..Len(threads[t].got) :
         threads[t].got[i] = Some(Initializer(threads[t].uses[i]))
    /\ \A i \in 1..Len(log) : log[i].result = inputs[log[i].input].alone

\* C18 witness: a thread waits for a pattern another thread is compiling.
C18_Witness ==
  /\ threads # <<>>
  /\ \E t \in Threads, u \in Threads :
       /\ threads[t].phase = "initializing"
       /\ threads[u].phase = "running"
       /\ threads[u].at <= Len(threads[u].uses)
       /\ threads[u].uses[threads[u].at] = threads[t].uses[threads[t].at]

\* C18 witness: two calls that ran side by side on the same pattern have
\* both returned annotations.
C18_WitnessBothReturned ==
  /\ Len(log) >= 2
  /\ log[1].thread # log[2].thread
  /\ inputs[log[1].input].format = "Point"
  /\ inputs[log[2].input].format = "Point"
  /\ log[1].result # None /\ log[2].result # None
  /\ \A t \in Threads : threads[t].made = 1

\* C21: analyze with no output_format uses kind Text: when the completion
\* arrives with a success status and holds a choice, the response's pointing
\* is None whatever the content of the first choice, extract returning None
\* for it, and content and reasoning are the first choice's content and
\* reasoning_content.
C21_AnalyzeDefaultsToText ==
  (/\ pc = "returned" /\ http # None
   /\ request = [method |-> "analyze", output_format |-> None]
   /\ http[1].status \in 200..299
   /\ http[1].body.completion # None
   /\ http[1].body.completion # Some(<<>>)) =>
    LET first == http[1].body.completion[1][1].message
    IN outcome = Some(Ok([content |-> first.content,
                          reasoning |-> first.reasoning_content,
                          pointing |-> None]))

\* C21 witness: analyze without output_format has returned on a completion
\* whose first choice holds a point_box tag and a reasoning_content; extract
\* was called, and extract for Box finds a box in that content.
C21_Witness ==
  /\ pc = "returned" /\ http # None
  /\ request = [method |-> "analyze", output_format |-> None]
  /\ http[1].status = 200 /\ http[1].body.completion # None
  /\ Len(http[1].body.completion[1]) = 1
  /\ http[1].body.completion[1][1].message.content
       = Some(Render(<<Token("item", "point_box", Some(<<"a">>), FALSE, 2)>>))
  /\ http[1].body.completion[1][1].message.reasoning_content = Some("because")
  /\ outcome # None /\ outcome[1].ok /\ outcome[1].value.pointing = None
  /\ calls = 1

\* The kind a method asks for: analyze and caption their output_format or
\* their default, detect Box; ocr none.
HintKind(req) == IF req.method = "ocr" THEN "none" ELSE output_format(req)

\* The hint of a kind, with and without reasoning, written out.
HintText(kind, think) ==
  CASE kind = "Point" /\ ~think -> Some("<hint>POINT</hint>")
    [] kind = "Point" /\ think -> Some("<hint>POINT THINK</hint>")
    [] kind = "Box" /\ ~think -> Some("<hint>BOX</hint>")
    [] kind = "Box" /\ think -> Some("<hint>BOX THINK</hint>")
    [] kind = "Polygon" /\ ~think -> Some("<hint>POLYGON</hint>")
    [] kind = "Polygon" /\ think -> Some("<hint>POLYGON THINK</hint>")
    [] kind \in {"Text", "none"} /\ think -> Some("<hint>THINK</hint>")
    [] kind \in {"Text", "none"} /\ ~think -> None

\* The system messages a method sends of its own: ocr and detect one each.
OwnSystem(req) == IF req.method \in {"ocr", "detect"} THEN 1 ELSE 0

\* C22: the hint message is <hint>K</hint>, K the keyword of the kind
\* (POINT, BOX, POLYGON) followed, when reasoning is enabled, by THINK after
\* one space, and THINK alone when the kind has no keyword; with kind Text or
\* none and reasoning not enabled no hint is sent.  A hint is the first
\* message, before the method's own system message and the user message,
\* which is the last.
C22_HintMessage ==
  pc = "built" =>
    LET msgs == wire[1]
        hint == HintText(HintKind(request), request.reasoning = Some(TRUE))
        n    == Len(msgs)
    IN /\ n >= 1 /\ msgs[n].role = "user"
       /\ \A i \in 1..(n - 1) : msgs[i].role = "system"
       /\ hint = None => n = OwnSystem(request) + 1
       /\ hint # None =>
            /\ n = OwnSystem(request) + 2
            /\ msgs[1] = [role |-> "system", content |-> hint[1]]
            /\ \A i \in 2..n : msgs[i] # msgs[1]

\* C22 witness: detect with reasoning enabled sent <hint>BOX THINK</hint>,
\* then its own system message, then the user message.
C22_Witness ==
  /\ pc = "built" /\ request.method = "detect"
  /\ request.reasoning = Some(TRUE) /\ Len(wire[1]) = 3
  /\ wire[1][1].content = "<hint>BOX THINK</hint>"
  /\ wire[1][2].role = "system" /\ wire[1][3].role = "user"

\* C22 witness: ocr in mode Plain without reasoning sent no hint: its own
\* system message and the user message only.
C22_WitnessNoHint ==
  /\ pc = "built" /\ request.method = "ocr" /\ request.mode = "Plain"
  /\ request.reasoning = None /\ Len(wire[1]) = 2
  /\ wire[1][1] = [role |-> "system", content |-> ocr_system]
  /\ wire[1][2].role = "user" /\ Len(wire[1][2].content) = 1

\* C22 witness: analyze with kind Text and reasoning enabled sent THINK alone.
C22_WitnessThinkAlone ==
  /\ pc = "built" /\ request.method = "analyze"
  /\ request.output_format = Some("Text") /\ request.reasoning = Some(TRUE)
  /\ wire[1][1].content = "<hint>THINK</hint>"

\* The annotations of the result built from token k.
AnnotationsOf(k) ==
  {i \in 1..Len(ResultList) : SourceToken(ResultList[i]) = k}

\* C23: each item tag inside a matched collection contributes at most one
\* annotation: the collection span is removed before the standalone pass, so
\* the result holds no second annotation of such a tag, with the inherited
\* mention or without it.
C23_NoRediscovery ==
  (pc = "done" /\ WellFormed(doc)) =>
    \A k \in Items(doc) :
      Inside(doc, k) => Cardinality(AnnotationsOf(k)) <= 1

\* C23 witness: a collection with a mention holds a point tag without one,
\* and a standalone point tag follows; the result is the two annotations,
\* the first with the inherited mention.
C23_Witness ==
  /\ pc = "done" /\ format = "Point" /\ WellFormed(doc) /\ Len(doc) = 4
  /\ doc[1].t = "open" /\ doc[1].mention = Some(<<"c">>)
  /\ doc[2].tag = "point" /\ doc[2].mention = None /\ doc[2].n = 1
  /\ doc[4].tag = "point" /\ doc[4].n >= 1
  /\ Len(ResultList) = 2
  /\ AnnotationsOf(2) = {1} /\ ResultList[1].mention = Some(<<"c">>)
  /\ AnnotationsOf(4) = {2}

\* The pairs of the pieces of a body whose form is in a set, in the order of
\* the pieces.
PairsOf(d, forms) ==
  LET ks == SelectSeq(Range(1, Len(d)), LAMBDA k : d[k] \in forms)
  IN [i \in 1..Len(ks) |-> <<PieceX(ks[i]), PieceY(ks[i])>>]

\* C24, as stated: parse_coords returns every pair of the form
\* ( digits , digits ) of the body, in text order, one per such pair.
C24_EveryPairOfTheForm ==
  pc = "done" =>
    Len(result) = Len(PairsOf(doc, PairForms \cup BigForms))

\* C24, amended: parse_coords returns the pairs of the form
\* ( digits , digits ) whose two components are at most 2^32 - 1, with any
\* white space around the digits and the comma, in text order, and nothing
\* else: what lies between pairs is ignored, and a pair with a sign, a
\* decimal point or a missing component is not returned.
C24_PairsInTextOrder ==
  pc = "done" => result = PairsOf(doc, PairForms)

\* C24 witness: a pair with line feeds and tabs, then a pair with a sign,
\* then a pair with leading zeros; the first and the third are returned.
C24_Witness ==
  /\ pc = "done" /\ doc = <<"lines", "minus", "zeros">>
  /\ result = <<(<<17, 1>>), (<<37, 3>>)>>

\* C24 witness: a pair follows an unclosed one directly and is returned.
C24_WitnessUnclosed ==
  /\ pc = "done" /\ doc = <<"unclosed", "spaced">>
  /\ Len(result) = 1

\* The annotation of a kind that holds the coordinates cs.
AnnotationFrom(f, cs, mention) ==
  CASE f = "Point" -> [x |-> cs[1][1], y |-> cs[1][2], mention |-> mention]
    [] f = "Box" ->
         [x1 |-> cs[1][1], y1 |-> cs[1][2], x2 |-> cs[2][1], y2 |-> cs[2][2],
          mention |-> mention]
    [] f = "Polygon" -> [hull |-> cs, mention |-> mention]

\* The written tags of a document.
WrittenTags(d) == {k \in 1..Len(d) : d[k].t = "pieces"}

\* The mention of the collection of a document, if it has one.
CollectionMention(d) == IF d[1].t = "open" THEN d[1].mention ELSE None

\* C25: a coordinate pair with a component greater than 2^32 - 1 is skipped:
\* it is not among the coordinates, wrapped, clamped or otherwise, does not
\* count toward the minimum of the kind, and the pairs after it move up.  The
\* result for a tag of the kind is the annotation of the pairs that are u32,
\* when they are as many as the kind needs, and else None.
C25_OutOfRangeSkipped ==
  (pc = "done" /\ format # "Text") =>
    \A k \in WrittenTags(doc) :
      doc[k].tag = FormatTag(format) =>
        LET cs == PairsOf(doc[k].forms, PairForms)
            mention == IF doc[k].mention # None THEN doc[k].mention
                       ELSE CollectionMention(doc)
        IN IF Len(cs) >= MinCoords(format)
           THEN result = Some([variant |-> FormatVariant(format),
                               list |-> <<AnnotationFrom(format, cs, mention)>>])
           ELSE result = None

\* C25 witness: a point_box tag whose first pair has x = 2^32, then two
\* pairs; the box holds the second and the third pair.
C25_Witness ==
  /\ pc = "done" /\ format = "Box" /\ Len(doc) = 1
  /\ doc[1].t = "pieces" /\ doc[1].tag = "point_box"
  /\ doc[1].forms = <<"bigX", "spaced", "spaced">>
  /\ result # None /\ Len(ResultList) = 1
  /\ ResultList[1].x1 = PieceX(2) /\ ResultList[1].y1 = PieceY(2)
  /\ ResultList[1].x2 = PieceX(3) /\ ResultList[1].y2 = PieceY(3)

\* C25 witness: a polygon tag with three pairs, the second with a y that is
\* no u32, yields None.
C25_WitnessBelowMinimum ==
  /\ pc = "done" /\ format = "Polygon" /\ Len(doc) = 1
  /\ doc[1].t = "pieces" /\ doc[1].tag = "polygon"
  /\ doc[1].forms = <<"spaced", "bigY", "spaced">>
  /\ result = None

\* C26: the annotation of a standalone tag, one outside every collection,
\* has the tag's own mention and never the mention of a collection of the
\* text, before it or after it; it has none when the tag has none.
C26_StandaloneOwnMention ==
  (pc = "done" /\ WellFormed(doc)) =>
    \A i \in 1..Len(ResultList) :
      LET k == SourceToken(ResultList[i])
      IN (k \in Items(doc) /\ ~Inside(doc, k)) =>
           ResultList[i].mention = doc[k].mention

\* C26 witness: a standalone tag without a mention, then a collection with
\* a mention around a tag; the standalone annotation, the second of the
\* result, has no mention.
C26_Witness ==
  /\ pc = "done" /\ WellFormed(doc) /\ Len(doc) = 4 /\ Len(ResultList) = 2
  /\ doc[1].t = "item" /\ doc[1].mention = None
  /\ doc[2].t = "open" /\ doc[2].mention = Some(<<"c">>)
  /\ SourceToken(ResultList[2]) = 1 /\ ResultList[2].mention = None
  /\ SourceToken(ResultList[1]) = 3 /\ ResultList[1].mention = Some(<<"c">>)

\* C26 witness: the collection with a mention comes first, the standalone
\* tag without a mention after it.
C26_WitnessAfter ==
  /\ pc = "done" /\ WellFormed(doc) /\ Len(doc) = 4 /\ Len(ResultList) = 2
  /\ doc[1].t = "open" /\ doc[1].mention = Some(<<"c">>)
  /\ doc[4].t = "item" /\ doc[4].mention = None
  /\ SourceToken(ResultList[2]) = 4 /\ ResultList[2].mention = None
  /\ ResultList[1].mention = Some(<<"c">>)

\* The matches one loop visited in one text, as they were visited.
VisitsOf(pass, hay) ==
  SelectSeq(scan.visited, LAMBDA v : v.pass = pass /\ v.hay = hay)

\* Every match visited is not empty, and the matches a loop visits in a
\* text lie one behind the other: each starts behind the end of the one
\* before, so no character is in two of them.
ScanOrdered ==
  scan # None =>
    /\ \A i \in 1..Len(scan.visited) :
         scan.visited[i].end >= scan.visited[i].start
    /\ \A i \in 1..Len(scan.visited) :
         LET v == VisitsOf(scan.visited[i].pass, scan.visited[i].hay)
         IN \A j \in 1..(Len(v) - 1) : v[j + 1].start > v[j].end

\* Once extract has returned, the scan has made the result extract returns.
ScanResult == (pc = "done" /\ scan # None) => result = extract(text, format)

\* C27: extract terminates for every text and every kind: the loop over
\* the collections, the loop over a collection body and the loop over the
\* remaining text each visit matches that are not empty, do not overlap and
\* lie in strictly increasing position, so each collection and each item
\* tag is visited at most once, and the call returns.
C27_ExtractTerminates == [](ScanOrdered /\ ScanResult) /\ <>(pc = "done")

\* C27 witness: extract has returned after it visited a collection and an
\* item tag inside it, whose annotation is the result.
C27_Witness ==
  /\ pc = "done" /\ scan # None
  /\ Len(VisitsOf("collections", 0)) = 1
  /\ Len(VisitsOf("inner", 1)) = 1
  /\ Len(scan.items) = 1
  /\ result # None

\* C27 witness: the loop over the remaining text visited three tags.
C27_WitnessThree ==
  pc = "done" /\ scan # None /\ Len(VisitsOf("standalone", 0)) = 3


\* The annotation extract makes of the tag written at position i of a
\* text, if a tag of the kind is written there and gives one.
AnnotationAt(s, f, i) ==
  LET m == TagMatchAt(item_regex(f), s, i)
  IN IF m = None THEN None
     ELSE Call(ParseFn(f), parse_coords(m[1].body), parse_mention(m[1].attrs))

\* C28: every annotation extract returns is built from an item tag that
\* is written in one piece in the text or in a collection body: an
\* annotation of the loop over the remaining text is the annotation of a
\* tag of the kind that begins at its place in the text as given and ends
\* at its end, so no tag is matched that only exists because the text
\* before and the text behind a removed collection were joined.
C28_TagsContiguous ==
  LET pushes == ExtractPushes(text, format)
  IN \A i \in 1..Len(pushes) :
       pushes[i].pass = "standalone" =>
         LET m == TagMatchAt(item_regex(format), text, pushes[i].from)
         IN /\ m # None
            /\ m[1].end = pushes[i].to
            /\ AnnotationAt(text, format, pushes[i].from) = Some(pushes[i].item)

\* C28: the same for the texts in which the collection is in front of the
\* tag or behind it.
C28_ContiguousWhenBeside ==
  (doc[1].t = "split" => doc[1].at \in {0, Len(RenderToken(Joined(doc[1]), 1))})
    => C28_TagsContiguous

\* The tag of the kind is split by a collection, and extract returns the
\* annotation of the joined tag.
C28_Joined ==
  /\ doc[1].t = "split" /\ pc = "done" /\ result # None
  /\ doc[1].at = 4 /\ doc[1].inner = None
  /\ result = extract(RenderToken(Joined(doc[1]), 1), format)


\* The collection opening tags of a document with no closing tag behind them.
Unterminated(d) ==
  {u \in 1..Len(d) :
     d[u].t = "open" /\ \A j \in (u + 1)..Len(d) : d[j].t # "close"}

\* The annotations of the result that hold coordinates of the tokens
\* behind token u.
ResultBehind(u) == SelectSeq(ResultList, LAMBDA item : SourceToken(item) > u)

\* Behind an opening tag u that is never closed, the annotations are those
\* of the item tags of the kind with enough coordinates, in the order of
\* the text, each with the mention of its own tag, and the result is the
\* one extract returns for the text without the opening tag.
AsIfNotOpened(u) ==
  /\ [i \in 1..Len(ResultBehind(u)) |-> SourceToken(ResultBehind(u)[i])]
       = SelectSeq(Range(u + 1, Len(doc)),
                   LAMBDA k : ValidItem(doc, format, k))
  /\ \A i \in 1..Len(ResultBehind(u)) :
       ResultBehind(u)[i].mention = doc[SourceToken(ResultBehind(u)[i])].mention
  /\ result = extract(RenderWithout(doc, {u}), format)

\* C29: when a collection opening tag has no closing tag behind it, no
\* collection is matched for it: the item tags behind it are extracted by
\* the loop over the remaining text, in the order of the text, each with
\* the mention of its own tag and never the one of the opening tag, and
\* the rest of the text is scanned as if the opening tag were not there.
C29_UnterminatedCollection ==
  (pc = "done" /\ format # "Text") =>
    \A u \in Unterminated(doc) : AsIfNotOpened(u)

\* C29 where no tag name only begins with the name of the format's tag.
C29_ExactNamesOnly ==
  (pc = "done" /\ format # "Text" /\ ExactNames(doc, format)) =>
    \A u \in Unterminated(doc) : AsIfNotOpened(u)

\* An opening tag with a mention is never closed, and the two item tags
\* behind it are extracted with their own mentions, the second with none.
C29_Extracted ==
  /\ pc = "done" /\ format = "Point" /\ Len(doc) = 3
  /\ 1 \in Unterminated(doc) /\ doc[1].mention = Some(<<"c">>)
  /\ Len(ResultList) = 2
  /\ ResultList[1].mention = Some(<<"a">>) /\ ResultList[2].mention = None


\* An opening tag is never closed, and behind it a point_box tag and a
\* point tag: for Point the result is one point with the first pair and
\* the mention of the point_box tag, and the point tag gives none.
C29_Swallowed ==
  /\ pc = "done" /\ format = "Point" /\ Len(doc) = 3
  /\ 1 \in Unterminated(doc) /\ doc[1].mention = Some(<<"c">>)
  /\ doc[2].tag = "point_box" /\ ValidItem(doc, format, 3)
  /\ Len(ResultList) = 1 /\ SourceToken(ResultList[1]) = 2
  /\ ResultList[1].mention = Some(<<"b">>)

\* C30: an item tag inside a collection whose mention attribute is empty,
\* mention="", has a mention of its own: its annotation has the empty
\* string as mention and not the mention of the collection.
C30_EmptyMentionIsOwn ==
  pc = "done" =>
    \A i \in 1..Len(ResultList) :
      LET k == SourceToken(ResultList[i])
      IN (k \in Items(doc) /\ Inside(doc, k) /\ doc[k].mention = Some(<<>>))
           => ResultList[i].mention = Some(<<>>)

\* C30 witness: a collection with the mention c around a tag with an empty
\* mention and a tag without one; the first annotation has the empty
\* string as mention, the second the mention of the collection.
C30_Witness ==
  /\ pc = "done" /\ Len(doc) = 4 /\ Len(ResultList) = 2
  /\ doc[1].t = "open" /\ doc[1].mention = Some(<<"c">>)
  /\ doc[2].mention = Some(<<>>) /\ doc[3].mention = None
  /\ SourceToken(ResultList[1]) = 2 /\ ResultList[1].mention = Some(<<>>)
  /\ SourceToken(ResultList[2]) = 3 /\ ResultList[2].mention = Some(<<"c">>)
====
